---- MODULE Spec2Model ----
(***************************************************************************)
(* Model of committer's default command (src/src/main.rs, fn main) with    *)
(* the branch helpers of src/src/branch.rs and the prompts of              *)
(* src/src/ui.rs.                                                          *)
(*                                                                         *)
(* Text is a sequence of characters; a character is a one-character        *)
(* string when it is printable ASCII, a tab, a line feed or a carriage     *)
(* return, and is named by its code point otherwise ("U+00E9" is e-acute,  *)
(* "U+000C" the form feed); so is the backquote, which a TLA+ string       *)
(* cannot hold ("U+0060").                                                 *)
(***************************************************************************)
EXTENDS Integers, Sequences, FiniteSets, TLC

\* ------------------------------------------------------------------------
\* Characters (Rust char and its methods)
\* ------------------------------------------------------------------------

AsciiLower == <<"a", "b", "c", "d", "e", "f", "g", "h", "i", "j", "k", "l", "m",
                "n", "o", "p", "q", "r", "s", "t", "u", "v", "w", "x", "y", "z">>

AsciiUpper == <<"A", "B", "C", "D", "E", "F", "G", "H", "I", "J", "K", "L", "M",
                "N", "O", "P", "Q", "R", "S", "T", "U", "V", "W", "X", "Y", "Z">>

AsciiDigit == <<"0", "1", "2", "3", "4", "5", "6", "7", "8", "9">>

Range(s) == {s[i] : i \in 1..Len(s)}

\* The characters U+0020..U+007E in order
AsciiPrintable ==
    <<" ", "!", "\"", "#", "$", "%", "&", "'", "(", ")", "*", "+", ",", "-", ".", "/">>
    \o AsciiDigit \o <<":", ";", "<", "=", ">", "?", "@">>
    \o AsciiUpper \o <<"[", "\\", "]", "^", "_", "U+0060">>
    \o AsciiLower \o <<"{", "|", "}", "~">>

\* char::from_u32(n), for a code point n that is no surrogate: the character
\* itself or its name, "U+" and the code point in hexadecimal, four digits
\* at least
char_of(n) ==
    LET HexDigit == AsciiDigit \o SubSeq(AsciiUpper, 1, 6)
        h(k) == HexDigit[((n \div k) % 16) + 1]
    IN  IF n \in 32..126 THEN AsciiPrintable[n - 31]
        ELSE IF n = 9 THEN "\t"
        ELSE IF n = 10 THEN "\n"
        ELSE IF n = 13 THEN "\r"
        ELSE "U+" \o (IF n >= 1048576 THEN h(1048576) ELSE "")
                  \o (IF n >= 65536 THEN h(65536) ELSE "")
                  \o h(4096) \o h(256) \o h(16) \o h(1)

\* The Unicode property White_Space: U+0009..U+000D, U+0020, U+0085, U+00A0,
\* U+1680, U+2000..U+200A, U+2028, U+2029, U+202F, U+205F, U+3000
White_Space ==
    {char_of(n) : n \in (9..13) \cup {32, 133, 160, 5760} \cup (8192..8202)
                          \cup {8232, 8233, 8239, 8287, 12288}}

\* char::is_whitespace
is_whitespace(c) == c \in White_Space

\* The characters that the tables of this section cover: Basic Latin,
\* Latin-1 Supplement and Latin Extended-A (U+0000..U+017F), the combining
\* dot above (U+0307) and the Greek letters (U+0391..U+03A9,
\* U+03B1..U+03C9). is_alphanumeric, lower_char and to_lowercase are
\* defined on these characters and on no other.
TabulatedCharacters ==
    {char_of(n) : n \in (0..383) \cup {775} \cup (913..929) \cup (931..937)
                          \cup (945..969)}

\* Of these, the characters with the property Alphabetic or the general
\* category Number (core::unicode::{alphabetic, n}):
\* U+0030..U+0039, U+0041..U+005A, U+0061..U+007A, U+00AA, U+00B2..U+00B3,
\* U+00B5, U+00B9..U+00BA, U+00BC..U+00BE, U+00C0..U+00D6, U+00D8..U+00F6,
\* U+00F8..U+017F, U+0391..U+03A1, U+03A3..U+03A9, U+03B1..U+03C9
Alphanumeric ==
    {char_of(n) : n \in
        (48..57) \cup (65..90) \cup (97..122) \cup {170} \cup
        (178..179) \cup {181} \cup (185..186) \cup (188..190) \cup
        (192..214) \cup (216..246) \cup (248..383) \cup
        (913..929) \cup (931..937) \cup (945..969)}

\* char::is_alphanumeric (Unicode Alphabetic or Numeric, not ASCII-only)
is_alphanumeric(c) ==
    CASE c \in TabulatedCharacters -> c \in Alphanumeric

\* Of these, the characters whose lower case is another single character
\* (core::unicode::conversions::to_lower): each run <<first, last, step, d>>
\* sends first, first + step, .. last to the character d code points
\* further
LOWERCASE_TABLE ==
    LET runs == {<<65, 90, 1, 32>>, <<192, 214, 1, 32>>, <<216, 222, 1, 32>>,
                 <<256, 302, 2, 1>>, <<306, 310, 2, 1>>, <<313, 327, 2, 1>>,
                 <<330, 374, 2, 1>>, <<376, 376, 1, -121>>, <<377, 381, 2, 1>>,
                 <<913, 929, 1, 32>>, <<931, 937, 1, 32>>}
        pairs == UNION {{<<char_of(n), char_of(n + r[4])>> :
                            n \in {m \in r[1]..r[2] : (m - r[1]) % r[3] = 0}} :
                        r \in runs}
    IN  [c \in {p[1] : p \in pairs} |-> (CHOOSE p \in pairs : p[1] = c)[2]]

\* char::to_lowercase: the characters of the lower case of c; U+0130 is
\* the one character with two
lower_char(c) ==
    CASE c \in TabulatedCharacters ->
        IF c = "U+0130" THEN <<"i", "U+0307">>
        ELSE IF c \in DOMAIN LOWERCASE_TABLE THEN <<LOWERCASE_TABLE[c]>>
        ELSE <<c>>

\* Of these, the characters with the property Cased
\* (core::unicode::cased):
\* U+0041..U+005A, U+0061..U+007A, U+00AA, U+00B5, U+00BA, U+00C0..U+00D6,
\* U+00D8..U+00F6, U+00F8..U+017F, U+0391..U+03A1, U+03A3..U+03A9,
\* U+03B1..U+03C9
Cased ==
    {char_of(n) : n \in
        (65..90) \cup (97..122) \cup {170} \cup {181} \cup
        {186} \cup (192..214) \cup (216..246) \cup (248..383) \cup
        (913..929) \cup (931..937) \cup (945..969)}

\* Of these, the characters with the property Case_Ignorable
\* (core::unicode::case_ignorable):
\* U+0027, U+002E, U+003A, U+005E, U+0060, U+00A8, U+00AD, U+00AF, U+00B4,
\* U+00B7..U+00B8, U+0307
Case_Ignorable ==
    {char_of(n) : n \in
        {39} \cup {46} \cup {58} \cup {94} \cup {96} \cup
        {168} \cup {173} \cup {175} \cup {180} \cup (183..184) \cup
        {775}}

\* map_uppercase_sigma: the lower case of the capital sigma from[i], the
\* final sigma U+03C2 when a cased character stands before it and none
\* after it, characters that are Case_Ignorable skipped on either side,
\* and U+03C3 otherwise
map_uppercase_sigma(from, i) ==
    CASE Range(from) \subseteq TabulatedCharacters ->
    LET case_ignorable_then_cased(js, between(_)) ==
            \E j \in js : /\ from[j] \notin Case_Ignorable
                          /\ from[j] \in Cased
                          /\ \A k \in between(j) : from[k] \in Case_Ignorable
        is_word_final ==
            /\ case_ignorable_then_cased(1..(i - 1), LAMBDA j : (j + 1)..(i - 1))
            /\ ~case_ignorable_then_cased((i + 1)..Len(from), LAMBDA j : (i + 1)..(j - 1))
    IN  IF is_word_final THEN "U+03C2" ELSE "U+03C3"

\* ------------------------------------------------------------------------
\* str helpers
\* ------------------------------------------------------------------------

\* str::trim: drop leading and trailing whitespace
RECURSIVE trim_start(_)
trim_start(s) ==
    IF s # <<>> /\ is_whitespace(Head(s)) THEN trim_start(Tail(s)) ELSE s

RECURSIVE trim_end(_)
trim_end(s) ==
    IF s # <<>> /\ is_whitespace(s[Len(s)])
    THEN trim_end(SubSeq(s, 1, Len(s) - 1))
    ELSE s

trim(s) == trim_end(trim_start(s))

\* str::split_whitespace: the maximal runs of non-whitespace, in order
RECURSIVE split_ws(_, _, _)
split_ws(s, cur, acc) ==
    IF s = <<>>
    THEN IF cur = <<>> THEN acc ELSE Append(acc, cur)
    ELSE IF is_whitespace(Head(s))
         THEN split_ws(Tail(s), <<>>, IF cur = <<>> THEN acc ELSE Append(acc, cur))
         ELSE split_ws(Tail(s), Append(cur, Head(s)), acc)

split_whitespace(s) == split_ws(s, <<>>, <<>>)

\* Iterator::take(n)
take(ws, n) == SubSeq(ws, 1, IF Len(ws) < n THEN Len(ws) ELSE n)

\* [&str]::join(sep)
RECURSIVE join(_, _)
join(ws, sep) ==
    IF ws = <<>> THEN <<>>
    ELSE IF Len(ws) = 1 THEN ws[1]
    ELSE ws[1] \o sep \o join(Tail(ws), sep)

\* str::to_lowercase: the lower case of each character in turn, with the
\* capital sigma (U+03A3) by its place in the word
to_lowercase(s) ==
    CASE Range(s) \subseteq TabulatedCharacters ->
        join([i \in 1..Len(s) |-> IF s[i] = "U+03A3"
                                  THEN <<map_uppercase_sigma(s, i)>>
                                  ELSE lower_char(s[i])], <<>>)

\* str::lines().next(): the text before the first "\n", without a "\r"
\* that ends it; None (modelled by the caller) when the text is empty
RECURSIVE until_newline(_)
until_newline(s) ==
    IF s = <<>> \/ Head(s) = "\n" THEN <<>>
    ELSE <<Head(s)>> \o until_newline(Tail(s))

first_of_lines(s) ==
    LET l == until_newline(s)
    IN  IF Len(l) < Len(s) /\ l # <<>> /\ l[Len(l)] = "\r"
        THEN SubSeq(l, 1, Len(l) - 1)
        ELSE l

\* ------------------------------------------------------------------------
\* branch.rs
\* ------------------------------------------------------------------------

PROTECTED_BRANCHES == {
    <<"m", "a", "i", "n">>,
    <<"m", "a", "s", "t", "e", "r">>,
    <<"d", "e", "v", "e", "l", "o", "p">>,
    <<"d", "e", "v">>,
    <<"s", "t", "a", "g", "i", "n", "g">>,
    <<"p", "r", "o", "d", "u", "c", "t", "i", "o", "n">> }

FILLER_WORDS == {
    <<"a", "d", "d">>,
    <<"u", "p", "d", "a", "t", "e">>,
    <<"f", "i", "x">>,
    <<"r", "e", "m", "o", "v", "e">>,
    <<"d", "e", "l", "e", "t", "e">>,
    <<"c", "h", "a", "n", "g", "e">>,
    <<"m", "o", "d", "i", "f", "y">>,
    <<"i", "m", "p", "l", "e", "m", "e", "n", "t">>,
    <<"c", "r", "e", "a", "t", "e">>,
    <<"m", "a", "k", "e">>,
    <<"s", "e", "t">>,
    <<"g", "e", "t">>,
    <<"u", "s", "e">>,
    <<"h", "a", "n", "d", "l", "e">>,
    <<"s", "u", "p", "p", "o", "r", "t">>,
    <<"e", "n", "a", "b", "l", "e">>,
    <<"d", "i", "s", "a", "b", "l", "e">>,
    <<"a", "l", "l", "o", "w">>,
    <<"i", "m", "p", "r", "o", "v", "e">>,
    <<"e", "n", "h", "a", "n", "c", "e">>,
    <<"t", "h", "e">>,
    <<"a">>,
    <<"a", "n">>,
    <<"t", "o">>,
    <<"f", "o", "r">>,
    <<"o", "f">>,
    <<"i", "n">>,
    <<"o", "n">>,
    <<"w", "i", "t", "h">>,
    <<"a", "n", "d">>,
    <<"o", "r">> }

\* A variant of not_filler that compares the word as written
not_filler_case_sensitive(w) == w \notin FILLER_WORDS

\* .filter(|w| !FILLER_WORDS.contains(&w.to_lowercase().as_str()))
not_filler(w) == to_lowercase(w) \notin FILLER_WORDS

\* .chars().filter(|c| c.is_alphanumeric() || *c == '-').collect()
keep_char(c) == is_alphanumeric(c) \/ c = "-"

\* slugify(text, max_words)
slugify(text, max_words) ==
    LET words == take(SelectSeq(split_whitespace(text), not_filler), max_words)
        fallback == take(split_whitespace(text), max_words)
    IN  IF words = <<>>
        THEN SelectSeq(to_lowercase(join(fallback, <<"-">>)), keep_char)
        ELSE SelectSeq(to_lowercase(join(words, <<"-">>)), keep_char)

\* Length of the longest prefix of s matched by [a-z]+ (0: no match)
RECURSIVE lower_run(_)
lower_run(s) ==
    IF s # <<>> /\ Head(s) \in Range(AsciiLower) THEN 1 + lower_run(Tail(s)) ELSE 0

\* Index of the first ")" of s at or after position i, 0 if there is none
RECURSIVE find_close(_, _)
find_close(s, i) ==
    IF i > Len(s) THEN 0
    ELSE IF s[i] = ")" THEN i ELSE find_close(s, i + 1)

\* Group 3 of the expression, \s*(.+)$ applied to what follows the colon:
\* the greedy \s* gives back one character when nothing else is left
description_of(rest) ==
    IF trim_start(rest) = <<>> THEN <<rest[Len(rest)]>> ELSE trim_start(rest)

\* re.captures(first_line) for ^([a-z]+)(?:\(([^)]+)\))?:\s*(.+)$
\* The line holds no "\n", so "." matches each of its characters.
regex_captures(line) ==
    LET n == lower_run(line)
        NoMatch == [matched |-> FALSE, commit_type |-> <<>>, has_scope |-> FALSE,
                    scope |-> <<>>, description |-> <<>>]
    IN  IF n = 0 \/ n >= Len(line) THEN NoMatch
        ELSE IF line[n + 1] = ":"
        THEN IF n + 1 >= Len(line) THEN NoMatch
             ELSE [matched |-> TRUE, commit_type |-> SubSeq(line, 1, n),
                   has_scope |-> FALSE, scope |-> <<>>,
                   description |-> description_of(SubSeq(line, n + 2, Len(line)))]
        ELSE IF line[n + 1] = "("
        THEN LET j == find_close(line, n + 2)
             IN  IF j = 0 \/ j = n + 2 \/ j + 1 >= Len(line) THEN NoMatch
                 ELSE IF line[j + 1] # ":" THEN NoMatch
                 ELSE [matched |-> TRUE, commit_type |-> SubSeq(line, 1, n),
                       has_scope |-> TRUE, scope |-> SubSeq(line, n + 2, j - 1),
                       description |-> description_of(SubSeq(line, j + 2, Len(line)))]
        ELSE NoMatch

\* A variant of generate_fallback_branch that reads the whole message
generate_fallback_branch_all_lines(commit_message) ==
    LET caps == IF \E i \in 1..Len(commit_message) : commit_message[i] = "\n"
                THEN regex_captures(<<>>)
                ELSE regex_captures(commit_message)
    IN  IF caps.matched
        THEN LET desc_slug == slugify(caps.description, 3)
             IN  IF caps.has_scope
                 THEN caps.commit_type \o <<"/">> \o caps.scope \o <<"-">> \o desc_slug
                 ELSE caps.commit_type \o <<"/">> \o desc_slug
        ELSE <<"f", "e", "a", "t", "/">> \o slugify(commit_message, 3)

\* generate_fallback_branch(commit_message)
generate_fallback_branch(commit_message) ==
    LET first_line == first_of_lines(commit_message)
        caps == regex_captures(first_line)
    IN  IF caps.matched
        THEN LET desc_slug == slugify(caps.description, 3)
             IN  IF caps.has_scope
                 THEN caps.commit_type \o <<"/">> \o caps.scope \o <<"-">> \o desc_slug
                 ELSE caps.commit_type \o <<"/">> \o desc_slug
        ELSE <<"f", "e", "a", "t", "/">> \o slugify(first_line, 3)

\* Option<T> and Result<T, E>
None == [is_some |-> FALSE, value |-> <<>>]

Some(v) == [is_some |-> TRUE, value |-> v]

Err == [is_ok |-> FALSE, value |-> <<>>]

Ok(v) == [is_ok |-> TRUE, value |-> v]

\* Result<String, E>::unwrap_or_default()
unwrap_or_default(r) == IF r.is_ok THEN r.value ELSE <<>>

\* ------------------------------------------------------------------------
\* str::strip_prefix, str::strip_suffix
\* ------------------------------------------------------------------------

starts_with(s, i, p) ==
    i + Len(p) - 1 <= Len(s) /\ SubSeq(s, i, i + Len(p) - 1) = p

\* content.strip_prefix(p).unwrap_or(content)
strip_prefix_or_same(s, p) ==
    IF starts_with(s, 1, p) THEN SubSeq(s, Len(p) + 1, Len(s)) ELSE s

\* content.strip_suffix(p).unwrap_or(content)
strip_suffix_or_same(s, p) ==
    IF Len(p) <= Len(s) /\ SubSeq(s, Len(s) - Len(p) + 1, Len(s)) = p
    THEN SubSeq(s, 1, Len(s) - Len(p))
    ELSE s

\* ------------------------------------------------------------------------
\* serde_json::from_str::<BranchAnalysis>: the JSON reader, then the
\* visitor that #[derive(Deserialize)] generates for the struct.
\* A JSON value is [t |-> its type, v |-> its content]. The reader checks
\* the strings of a value it keeps (validate) and only steps over those of
\* a value it ignores, the value of a field the struct does not have.
\* ------------------------------------------------------------------------

JsonErr == [ok |-> FALSE, value |-> <<>>, next |-> 0]

\* A value read, and the position after it
JsonOk(val, n) == [ok |-> TRUE, value |-> val, next |-> n]

JsonValue(t, v) == [t |-> t, v |-> v]

RECURSIVE skip_whitespace(_, _)
skip_whitespace(s, i) ==
    IF i <= Len(s) /\ s[i] \in {" ", "\t", "\n", "\r"}
    THEN skip_whitespace(s, i + 1)
    ELSE i

\* The character an escape stands for (backspace and form feed for b and f)
unescape(c) ==
    CASE c = "n" -> "\n"
      [] c = "t" -> "\t"
      [] c = "r" -> "\r"
      [] c = "b" -> char_of(8)
      [] c = "f" -> char_of(12)
      [] OTHER -> c

\* The characters below U+0020, which a JSON string cannot hold unescaped
ControlCharacters == {char_of(n) : n \in 0..31}

\* Read::decode_hex_escape: the number that the four hexadecimal digits
\* s[i..i+3] write, -1 when they are not four hexadecimal digits
decode_hex_escape(s, i) ==
    LET digit(c) ==
            IF c \in Range(AsciiDigit)
            THEN (CHOOSE k \in 1..10 : AsciiDigit[k] = c) - 1
            ELSE IF \E k \in 1..6 : c \in {AsciiLower[k], AsciiUpper[k]}
            THEN 9 + CHOOSE k \in 1..6 : c \in {AsciiLower[k], AsciiUpper[k]}
            ELSE -1
    IN  IF i + 3 > Len(s) \/ \E k \in i..(i + 3) : digit(s[k]) = -1 THEN -1
        ELSE 4096 * digit(s[i]) + 256 * digit(s[i + 1])
             + 16 * digit(s[i + 2]) + digit(s[i + 3])

\* A string, from the character after its opening quote (Read::parse_str,
\* and Read::ignore_str when validate is FALSE: the text is not kept then,
\* and a \u escape is four hexadecimal digits of any value). A kept \u
\* escape is a code point that is no surrogate, or a leading surrogate
\* (U+D800..U+DBFF) with the \u escape of a trailing one (U+DC00..U+DFFF)
\* right after it.
RECURSIVE parse_str(_, _, _, _)
parse_str(s, i, acc, validate) ==
    IF i > Len(s) THEN JsonErr
    ELSE IF s[i] = "\"" THEN JsonOk(JsonValue("string", acc), i + 1)
    ELSE IF s[i] = "\\"
         THEN IF i + 1 > Len(s) THEN JsonErr
              ELSE IF s[i + 1] \in {"\"", "\\", "/", "b", "f", "n", "r", "t"}
              THEN parse_str(s, i + 2,
                             IF validate THEN Append(acc, unescape(s[i + 1])) ELSE acc,
                             validate)
              ELSE IF s[i + 1] = "u"
              THEN LET n1 == decode_hex_escape(s, i + 2)
                       n2 == IF starts_with(s, i + 6, <<"\\", "u">>)
                             THEN decode_hex_escape(s, i + 8)
                             ELSE -1
                   IN  IF n1 = -1 THEN JsonErr
                       ELSE IF ~validate THEN parse_str(s, i + 6, acc, validate)
                       ELSE IF n1 \in 56320..57343 THEN JsonErr
                       ELSE IF n1 \in 55296..56319
                       THEN IF n2 \in 56320..57343
                            THEN parse_str(s, i + 12,
                                     Append(acc, char_of(65536 + (n1 - 55296) * 1024
                                                         + (n2 - 56320))),
                                     validate)
                            ELSE JsonErr
                       ELSE parse_str(s, i + 6, Append(acc, char_of(n1)), validate)
              ELSE JsonErr
    ELSE IF s[i] \in ControlCharacters THEN JsonErr
    ELSE parse_str(s, i + 1, IF validate THEN Append(acc, s[i]) ELSE acc, validate)

RECURSIVE digits_end(_, _)
digits_end(s, i) ==
    IF i <= Len(s) /\ s[i] \in Range(AsciiDigit) THEN digits_end(s, i + 1) ELSE i

\* A number: -? (0 | [1-9][0-9]*) (. [0-9]+)? ([eE] [+-]? [0-9]+)?
parse_number(s, i) ==
    LET a == IF s[i] = "-" THEN i + 1 ELSE i
        b == digits_end(s, a)
        int_ok == b > a /\ (s[a] = "0" => b = a + 1)
        has_frac == b <= Len(s) /\ s[b] = "."
        c == IF has_frac THEN digits_end(s, b + 1) ELSE b
        frac_ok == has_frac => c > b + 1
        has_exp == c <= Len(s) /\ s[c] \in {"e", "E"}
        d0 == IF has_exp /\ c + 1 <= Len(s) /\ s[c + 1] \in {"+", "-"}
              THEN c + 2 ELSE c + 1
        d == IF has_exp THEN digits_end(s, d0) ELSE c
        exp_ok == has_exp => d > d0
    IN  IF int_ok /\ frac_ok /\ exp_ok
        THEN JsonOk(JsonValue("number", <<>>), d)
        ELSE JsonErr

\* The fields of BranchAnalysis
K_matches == <<"m", "a", "t", "c", "h", "e", "s">>

K_reason == <<"r", "e", "a", "s", "o", "n">>

K_suggested_branch ==
    <<"s", "u", "g", "g", "e", "s", "t", "e", "d", "_", "b", "r", "a", "n", "c", "h">>

\* let x = v; F(x): v is computed once, however often F uses it
Bind(v, F(_)) == CHOOSE r \in {F(x) : x \in {v}} : TRUE

RECURSIVE parse_value(_, _, _), parse_members(_, _, _, _), parse_elements(_, _, _, _)

\* Any JSON value, from position i0, leading whitespace skipped
parse_value(s, i0, validate) ==
    Bind(skip_whitespace(s, i0), LAMBDA i :
        IF i > Len(s) THEN JsonErr
        ELSE IF s[i] = "{"
        THEN LET j == skip_whitespace(s, i + 1)
             IN  IF j <= Len(s) /\ s[j] = "}"
                 THEN JsonOk(JsonValue("object", <<>>), j + 1)
                 ELSE parse_members(s, j, <<>>, validate)
        ELSE IF s[i] = "["
        THEN LET j == skip_whitespace(s, i + 1)
             IN  IF j <= Len(s) /\ s[j] = "]"
                 THEN JsonOk(JsonValue("array", <<>>), j + 1)
                 ELSE parse_elements(s, j, <<>>, validate)
        ELSE IF s[i] = "\"" THEN parse_str(s, i + 1, <<>>, validate)
        ELSE IF starts_with(s, i, <<"t", "r", "u", "e">>)
        THEN JsonOk(JsonValue("bool", TRUE), i + 4)
        ELSE IF starts_with(s, i, <<"f", "a", "l", "s", "e">>)
        THEN JsonOk(JsonValue("bool", FALSE), i + 5)
        ELSE IF starts_with(s, i, <<"n", "u", "l", "l">>)
        THEN JsonOk(JsonValue("null", <<>>), i + 4)
        ELSE IF s[i] = "-" \/ s[i] \in Range(AsciiDigit) THEN parse_number(s, i)
        ELSE JsonErr)

\* The members of an object, from the position of a key. The value of a
\* key that is no field of the struct is ignored, with all it holds.
parse_members(s, i0, acc, validate) ==
    Bind(i0, LAMBDA i :
    IF i > Len(s) \/ s[i] # "\"" THEN JsonErr
    ELSE Bind(parse_str(s, i + 1, <<>>, validate), LAMBDA k :
         IF ~k.ok THEN JsonErr
         ELSE Bind(skip_whitespace(s, k.next), LAMBDA c :
              IF c > Len(s) \/ s[c] # ":" THEN JsonErr
              ELSE Bind(IF validate /\ k.value.v \in {K_matches, K_reason,
                                                      K_suggested_branch}
                        THEN parse_value(s, c + 1, TRUE)
                        ELSE parse_value(s, c + 1, FALSE), LAMBDA val :
                   IF ~val.ok THEN JsonErr
                   ELSE Bind(skip_whitespace(s, val.next), LAMBDA e :
                        LET more == Append(acc, [key |-> k.value.v,
                                                 value |-> val.value])
                        IN  IF e > Len(s) THEN JsonErr
                            ELSE IF s[e] = "}"
                            THEN JsonOk(JsonValue("object", more), e + 1)
                            ELSE IF s[e] = ","
                            THEN parse_members(s, skip_whitespace(s, e + 1),
                                               more, validate)
                            ELSE JsonErr)))))

\* The elements of an array, from the position of an element
parse_elements(s, i, acc, validate) ==
    Bind(parse_value(s, i, validate), LAMBDA val :
        IF ~val.ok THEN JsonErr
        ELSE Bind(skip_whitespace(s, val.next), LAMBDA e :
             LET more == Append(acc, val.value)
             IN  IF e > Len(s) THEN JsonErr
                 ELSE IF s[e] = "]" THEN JsonOk(JsonValue("array", more), e + 1)
                 ELSE IF s[e] = ","
                 THEN LET n == skip_whitespace(s, e + 1)
                      IN  IF n <= Len(s) /\ s[n] = "]" THEN JsonErr
                          ELSE parse_elements(s, n, more, validate)
                 ELSE JsonErr))

\* Option<String> from a value: null is None, a string is Some
option_string(val) ==
    IF val.t = "null" THEN Ok(None)
    ELSE IF val.t = "string" THEN Ok(Some(val.v))
    ELSE Err

\* The generated visit_map: a known field twice or of the wrong type is an
\* error, an unknown field is skipped, a missing matches or reason is an
\* error, a missing suggested_branch is None
RECURSIVE visit_map(_, _, _)
visit_map(fields, i, seen) ==
    IF i > Len(fields)
    THEN IF seen.matches.is_some /\ seen.reason.is_some
         THEN Ok([matches |-> seen.matches.value,
                  reason |-> seen.reason.value,
                  suggested_branch |-> IF seen.suggested_branch.is_some
                                       THEN seen.suggested_branch.value
                                       ELSE None])
         ELSE Err
    ELSE LET f == fields[i]
         IN  IF f.key = K_matches
             THEN IF seen.matches.is_some \/ f.value.t # "bool" THEN Err
                  ELSE visit_map(fields, i + 1, [seen EXCEPT !.matches = Some(f.value.v)])
             ELSE IF f.key = K_reason
             THEN IF seen.reason.is_some \/ f.value.t # "string" THEN Err
                  ELSE visit_map(fields, i + 1, [seen EXCEPT !.reason = Some(f.value.v)])
             ELSE IF f.key = K_suggested_branch
             THEN IF seen.suggested_branch.is_some \/ ~option_string(f.value).is_ok THEN Err
                  ELSE visit_map(fields, i + 1,
                           [seen EXCEPT !.suggested_branch =
                                            Some(option_string(f.value).value)])
             ELSE visit_map(fields, i + 1, seen)

\* The generated visit_seq: the three fields in order, no more, no less
visit_seq(elems) ==
    IF /\ Len(elems) = 3
       /\ elems[1].t = "bool"
       /\ elems[2].t = "string"
       /\ option_string(elems[3]).is_ok
    THEN Ok([matches |-> elems[1].v,
             reason |-> elems[2].v,
             suggested_branch |-> option_string(elems[3]).value])
    ELSE Err

NothingSeen == [matches |-> None, reason |-> None, suggested_branch |-> None]

\* serde_json::from_str::<BranchAnalysis>(content): one value, with
\* nothing but whitespace after it, that the visitor accepts
from_str(content) ==
    Bind(parse_value(content, 1, TRUE), LAMBDA r :
        IF ~r.ok THEN Err
        ELSE IF skip_whitespace(content, r.next) <= Len(content) THEN Err
        ELSE IF r.value.t = "object" THEN visit_map(r.value.v, 1, NothingSeen)
        ELSE IF r.value.t = "array" THEN visit_seq(r.value.v)
        ELSE Err)

\* ------------------------------------------------------------------------
\* Inputs of a run: texts the collaborators can return, bounded
\* ------------------------------------------------------------------------

\* "feat(auth): add refresh token", "fix login bug",
\* "docs: Update the README\n\nMore text", "fix: "
MessagePool == <<
    <<"f", "e", "a", "t", "(", "a", "u", "t", "h", ")", ":", " ", "a", "d", "d",
      " ", "r", "e", "f", "r", "e", "s", "h", " ", "t", "o", "k", "e", "n">>,
    <<"f", "i", "x", " ", "l", "o", "g", "i", "n", " ", "b", "u", "g">>,
    <<"d", "o", "c", "s", ":", " ", "U", "p", "d", "a", "t", "e", " ", "t", "h", "e",
      " ", "R", "E", "A", "D", "M", "E", "\n", "\n", "M", "o", "r", "e", " ",
      "t", "e", "x", "t">>,
    <<"f", "i", "x", ":", " ">> >>

\* "fix/ui-chat-scroll", "feat/auth-login", "wip"
BranchNamePool == <<
    <<"f", "i", "x", "/", "u", "i", "-", "c", "h", "a", "t", "-", "s", "c", "r", "o", "l", "l">>,
    <<"f", "e", "a", "t", "/", "a", "u", "t", "h", "-", "l", "o", "g", "i", "n">>,
    <<"w", "i", "p">> >>

\* "main", "feat/auth-login", "dev"
CurrentBranchPool == <<
    <<"m", "a", "i", "n">>,
    <<"f", "e", "a", "t", "/", "a", "u", "t", "h", "-", "l", "o", "g", "i", "n">>,
    <<"d", "e", "v">> >>

NumMessages == 2

NumBranchNames == 2

NumCurrentBranches == 2

FirstOf(pool, n) == {pool[i] : i \in 1..(IF n < Len(pool) THEN n ELSE Len(pool))}

Messages == FirstOf(MessagePool, NumMessages)

BranchNames == FirstOf(BranchNamePool, NumBranchNames)

CurrentBranches == FirstOf(CurrentBranchPool, NumCurrentBranches)

\* Lines the user can type at a prompt, as read_line returns them
InputLines == {
    <<"y", "\n">>, <<" ", "N", "O", "\n">>, <<"E", "d", "i", "t", "\n">>,
    <<"b", "\n">>, <<"q", "\n">>, <<"U+000C", "y", "\n">> }

\* What get_git_diff can return: an error, no diff, a blank diff, a diff
DiffText == <<"+", "f", "n", " ", "m", "a", "i", "n", "(", ")", "\n">>

DiffResults == {Err, Ok(<<>>), Ok(<<" ", "\n">>), Ok(DiffText)}

\* What get_staged_files can return
FilesText == <<"s", "r", "c", "/", "m", "a", "i", "n", ".", "r", "s", "\n">>

FilesResults == {Err, Ok(FilesText)}

\* What `git status --porcelain` can give: the command does not run, or
\* its standard output
StatusResults == {Err, Ok(<<>>), Ok(<<"\n">>),
                  Ok(<<"?", "?", " ", "a", ".", "r", "s", "\n">>)}

\* What get_recent_commits can return: an error, no commit, a log
RecentLog == <<"a", "b", "c", "1", "2", "3", " ", "i", "n", "i", "t">>

RecentCommitsResults == {Err, Ok(<<>>), Ok(RecentLog)}

\* JSON texts, written out
json_string(t) == <<"\"">> \o t \o <<"\"">>

json_field(k, val) == json_string(k) \o <<":">> \o val

json_object(fields) == <<"{">> \o join(fields, <<",">>) \o <<"}">>

json_bool(b) == IF b THEN <<"t", "r", "u", "e">> ELSE <<"f", "a", "l", "s", "e">>

ReasonText == <<"o", "k">>

\* What the completion service can answer to the alignment request. The
\* content of a choice is text: "not json", or a verdict as the request
\* asks for it, {"matches":m,"reason":"ok"} with "suggested_branch":"s"
\* or without
NotJson == <<"n", "o", "t", " ", "j", "s", "o", "n">>

Verdict(m, s) ==
    json_object(<<json_field(K_matches, json_bool(m)),
                  json_field(K_reason, json_string(ReasonText))>>
                \o (IF s.is_some
                    THEN <<json_field(K_suggested_branch, json_string(s.value))>>
                    ELSE <<>>))

AnalysisContents ==
    {NotJson} \cup {Verdict(m, s) : m \in BOOLEAN,
                                   s \in {None} \cup {Some(b) : b \in BranchNames}}

AnalysisResponses ==
    {[sent |-> FALSE, success |-> FALSE, choices |-> <<>>],
     [sent |-> TRUE, success |-> FALSE, choices |-> <<>>],
     [sent |-> TRUE, success |-> TRUE, choices |-> <<>>]}
    \cup {[sent |-> TRUE, success |-> TRUE, choices |-> <<c>>] : c \in AnalysisContents}

\* What the completion service can answer to the branch-name request: the
\* content is text, here a branch name with or without surrounding blanks
SuggestionContents ==
    {<<>>, <<" ", "\n">>} \cup BranchNames
    \cup {<<" ">> \o b \o <<"\n">> : b \in BranchNames}

SuggestionResponses ==
    {[sent |-> FALSE, success |-> FALSE, choices |-> <<>>],
     [sent |-> TRUE, success |-> FALSE, choices |-> <<>>],
     [sent |-> TRUE, success |-> TRUE, choices |-> <<>>]}
    \cup {[sent |-> TRUE, success |-> TRUE, choices |-> <<c>>] : c \in SuggestionContents}

\* ------------------------------------------------------------------------
\* branch.rs: the two requests, from the response on
\* ------------------------------------------------------------------------

\* The text handed to serde_json: content.trim(), without a leading
\* "```json", without a leading "```", without a trailing "```", trimmed
unfenced(content) ==
    LET c1 == trim(content)
        c2 == strip_prefix_or_same(c1, <<"U+0060", "U+0060", "U+0060", "j", "s", "o", "n">>)
        c3 == strip_prefix_or_same(c2, <<"U+0060", "U+0060", "U+0060">>)
        c4 == strip_suffix_or_same(c3, <<"U+0060", "U+0060", "U+0060">>)
    IN  trim(c4)

\* analyze_branch_alignment: send()? ; status check ; choices.first() or
\* the empty text ; the fence is taken off ; serde_json::from_str
analyze_branch_alignment(resp) ==
    IF ~resp.sent THEN Err
    ELSE IF ~resp.success THEN Err
    ELSE LET content == IF resp.choices = <<>> THEN <<>> ELSE resp.choices[1]
         IN  from_str(unfenced(content))

\* generate_branch_suggestion: send()? ; status check ; choices.first() or
\* the empty text ; trim ; an empty name is an error
generate_branch_suggestion(resp) ==
    IF ~resp.sent THEN Err
    ELSE IF ~resp.success THEN Err
    ELSE LET content == IF resp.choices = <<>> THEN <<>> ELSE resp.choices[1]
             branch_name == trim(content)
         IN  IF branch_name = <<>> THEN Err ELSE Ok(branch_name)

\* ------------------------------------------------------------------------
\* ui.rs: how a typed line selects a match arm
\* ------------------------------------------------------------------------

\* input.trim().to_lowercase()
normalize(line) == to_lowercase(trim(line))

\* A variant of commit_choice that accepts "b" whether or not the option
\* is offered
commit_choice_any_time(line, show_branch) ==
    LET k == normalize(line)
    IN  IF k \in {<<"y">>, <<"y", "e", "s">>} THEN "commit"
        ELSE IF k \in {<<"n">>, <<"n", "o">>} THEN "cancel"
        ELSE IF k \in {<<"e">>, <<"e", "d", "i", "t">>} THEN "edit"
        ELSE IF k \in {<<"b">>, <<"b", "r", "a", "n", "c", "h">>} THEN "create_branch"
        ELSE "invalid"

\* prompt_commit's match: the arm a line selects
commit_choice(line, show_branch) ==
    LET k == normalize(line)
    IN  IF k \in {<<"y">>, <<"y", "e", "s">>} THEN "commit"
        ELSE IF k \in {<<"n">>, <<"n", "o">>} THEN "cancel"
        ELSE IF k \in {<<"e">>, <<"e", "d", "i", "t">>} THEN "edit"
        ELSE IF k \in {<<"b">>, <<"b", "r", "a", "n", "c", "h">>} /\ show_branch
             THEN "create_branch"
        ELSE "invalid"

\* prompt_branch_action's match: the arm a line selects
branch_choice(line) ==
    LET k == normalize(line)
    IN  IF k \in {<<"y">>, <<"y", "e", "s">>} THEN "create"
        ELSE IF k \in {<<"n">>, <<"n", "o">>} THEN "skip"
        ELSE IF k \in {<<"e">>, <<"e", "d", "i", "t">>} THEN "edit"
        ELSE "invalid"

\* Editor::edit(&current).unwrap_or(None).unwrap_or_else(|| current.clone()):
\* the editor returns Ok(Some(text)), Ok(None) or an error
EditorResults == {Err, Ok(None)} \cup {Ok(Some(m)) : m \in Messages}

edited_message(result, current) ==
    LET opt == IF result.is_ok THEN result.value ELSE None
    IN  IF opt.is_some THEN opt.value ELSE current

\* ------------------------------------------------------------------------
\* main.rs: the decisions of main
\* ------------------------------------------------------------------------

\* A variant of diff_is_empty: diff.is_empty()
diff_is_empty_untrimmed(diff) == diff = <<>>

\* if diff.trim().is_empty()
diff_is_empty(diff) == trim(diff) = <<>>

\* if status.trim().is_empty() { exit(0) } else { exit(1) }
status_exit(status) == IF trim(status) = <<>> THEN "exit0" ELSE "exit1"

\* A variant of message_is_empty: the check is left out
message_never_empty(m) == FALSE

\* if message.is_empty()
message_is_empty(m) == m = <<>>

\* if cli.branch || cli.auto_branch
alignment_requested(c) == c.branch \/ c.auto_branch

\* A variant of suggested_or_fallback: unwrap_or_default()
suggested_or_default(a, msg) ==
    IF a.suggested_branch.is_some THEN a.suggested_branch.value ELSE <<>>

\* analysis.suggested_branch.unwrap_or_else(|| generate_fallback_branch(&message))
suggested_or_fallback(a, msg) ==
    IF a.suggested_branch.is_some THEN a.suggested_branch.value
    ELSE generate_fallback_branch(msg)

\* A variant of auto_accept that looks at --yes only
auto_accept_yes_only(c) == c.yes

\* if cli.auto_branch || cli.yes
auto_accept(c) == c.auto_branch \/ c.yes

\* if cli.yes || config.auto_commit
commit_without_asking(c, cfg) == c.yes \/ cfg.auto_commit

\* A variant of dry_run_requested in which --yes overrides --dry-run
dry_run_unless_yes(c) == c.dry_run /\ ~c.yes

\* if cli.dry_run
dry_run_requested(c) == c.dry_run

\* A variant of initial_show_branch_option that forgets the earlier decision
initial_show_branch_option_always(handled) == TRUE

\* let mut show_branch_option = !branch_already_handled
initial_show_branch_option(handled) == ~handled

\* A variant of suggestion_or_fallback: unwrap_or_default()
suggestion_or_default(result, msg) ==
    IF result.is_ok THEN result.value ELSE <<>>

\* match generate_branch_suggestion(..) { Ok(name) => name,
\*                                        Err(_) => generate_fallback_branch(..) }
suggestion_or_fallback(result, msg) ==
    IF result.is_ok THEN result.value ELSE generate_fallback_branch(msg)

\* A variant of commit_after_branch_now that commits after a skip as well
commit_after_branch_even_skipped(cfg, created) == cfg.commit_after_branch

\* if config.commit_after_branch && branch_created
commit_after_branch_now(cfg, created) == cfg.commit_after_branch /\ created

\* A variant of show_branch_option_after_subflow: the option stays
show_branch_option_kept == TRUE

\* show_branch_option = false, at the end of the CreateBranch arm
show_branch_option_after_subflow == FALSE

\* ------------------------------------------------------------------------
\* State
\* ------------------------------------------------------------------------

VARIABLES
    cli,                    \* Cli: yes, dry_run, branch, auto_branch
    config,                 \* Config: auto_commit, commit_after_branch
    pc,                     \* where main is
    outcome,                \* how the run ended, "running" until then
    diff_result,            \* the two futures of tokio::join!
    files_result,
    git_result,             \* what a version-control call has just returned
    message,                \* main's variables
    branch_already_handled,
    current_branch,         \* the alignment block's, then the CreateBranch arm's
    recent_commits,
    analysis,
    suggested,
    show_branch_option,
    current_message,
    branch_created,
    prompt_message,         \* prompt_commit's current_message
    current_suggestion,     \* prompt_branch_action's current_suggestion
    prompt_caller,          \* which call of prompt_branch_action is running
    input,                  \* the line last read by the running prompt
    shown_message,          \* the message text last put before the user
    effects,                \* the calls made since the diff was read, in order
    call,                   \* a helper of branch.rs called on its own: its arguments
    returned                \* what that call returned

vars == <<cli, config, pc, outcome, diff_result, files_result, git_result, message,
          branch_already_handled, current_branch, recent_commits, analysis,
          suggested, show_branch_option, current_message, branch_created,
          prompt_message, current_suggestion, prompt_caller, input,
          shown_message, effects, call, returned>>

\* The variables of main and of the prompts
main_vars == <<cli, config, pc, outcome, diff_result, files_result, git_result,
               message, branch_already_handled, current_branch, recent_commits,
               analysis, suggested, show_branch_option, current_message,
               branch_created, prompt_message, current_suggestion, prompt_caller,
               input, shown_message, effects>>

\* The variables of a helper called on its own: main leaves them alone
call_vars == <<call, returned>>

\* The variables of main that live for the whole run
run_vars == <<message, branch_already_handled, show_branch_option,
              current_message, shown_message>>

\* The variables of a block of main: they are dropped where the block ends
block_vars == <<current_branch, recent_commits, analysis, suggested, branch_created>>

\* The variables of a running prompt: they are dropped when it returns
prompt_vars == <<prompt_message, current_suggestion, prompt_caller, input>>

join_vars == <<diff_result, files_result>>

\* The results of version-control calls that main has not yet looked at
git_vars == <<diff_result, files_result, git_result>>

\* One call of a collaborator: its name, its text argument, and a flag (the
\* call succeeded; for a prompt, the option it was called with)
Effect(op, arg, flag) == [op |-> op, arg |-> arg, flag |-> flag]

Log(op, arg, flag) == effects' = Append(effects, Effect(op, arg, flag))

\* A future that has not completed, a call that has not returned
Pending == [pending |-> TRUE]

NoAnalysis == [matches |-> TRUE, reason |-> <<>>, suggested_branch |-> None]

NoCall == [fn |-> "none"]

NotReturned == [returned |-> FALSE]

Returned(v) == [returned |-> TRUE, value |-> v]

\* main is entered: the locals hold nothing yet
MainEntry ==
    /\ pc = "api_key"
    /\ outcome = "running"
    /\ diff_result = Pending
    /\ files_result = Pending
    /\ git_result = Pending
    /\ message = <<>>
    /\ branch_already_handled = FALSE
    /\ current_branch = <<>>
    /\ recent_commits = <<>>
    /\ analysis = NoAnalysis
    /\ suggested = <<>>
    /\ show_branch_option = FALSE
    /\ current_message = <<>>
    /\ branch_created = FALSE
    /\ prompt_message = <<>>
    /\ current_suggestion = <<>>
    /\ prompt_caller = "none"
    /\ input = <<>>
    /\ shown_message = <<>>
    /\ effects = <<>>

Init ==
    /\ cli \in [yes : BOOLEAN, dry_run : BOOLEAN, branch : BOOLEAN,
                auto_branch : BOOLEAN]
    /\ config \in [auto_commit : BOOLEAN, commit_after_branch : BOOLEAN]
    /\ MainEntry
    /\ call = NoCall
    /\ returned = NotReturned

\* The run ends: process exit or return from main
Finish(how) == pc' = "done" /\ outcome' = how

Continue(next) == pc' = next /\ outcome' = outcome

\* The end of the alignment block or of the CreateBranch arm
DropBlock ==
    /\ current_branch' = <<>>
    /\ recent_commits' = <<>>
    /\ analysis' = NoAnalysis
    /\ suggested' = <<>>
    /\ branch_created' = FALSE

\* The return of prompt_commit or prompt_branch_action
DropPrompt ==
    /\ prompt_message' = <<>>
    /\ current_suggestion' = <<>>
    /\ prompt_caller' = "none"
    /\ input' = <<>>

\* ------------------------------------------------------------------------
\* main: up to the generated message
\* ------------------------------------------------------------------------

\* get_api_key(): without a key the process exits with status 1
GetApiKey ==
    /\ pc = "api_key"
    /\ \E present \in BOOLEAN :
        IF present THEN Continue("stage") ELSE Finish("exit1")
    /\ UNCHANGED <<call_vars, cli, config, git_vars, run_vars, block_vars, prompt_vars, effects>>

\* if cli.all { stage_all_changes().await?; }
StageAll ==
    /\ pc = "stage"
    /\ \E all \in BOOLEAN, ok \in BOOLEAN :
        IF all /\ ~ok THEN Finish("error") ELSE Continue("join")
    /\ UNCHANGED <<call_vars, cli, config, git_vars, run_vars, block_vars, prompt_vars, effects>>

\* tokio::join!: get_git_diff(true, verbose) completes
GetGitDiff ==
    /\ pc = "join"
    /\ diff_result = Pending
    /\ diff_result' \in DiffResults
    /\ UNCHANGED <<call_vars, cli, config, pc, outcome, files_result, git_result, run_vars,
                   block_vars, prompt_vars, effects>>

\* tokio::join!: get_staged_files(verbose) completes
GetStagedFiles ==
    /\ pc = "join"
    /\ files_result = Pending
    /\ files_result' \in FilesResults
    /\ UNCHANGED <<call_vars, cli, config, pc, outcome, diff_result, git_result, run_vars,
                   block_vars, prompt_vars, effects>>

\* A variant of JoinResults: files_result.unwrap_or_default() in place of `?`
JoinResultsFilesOrDefault ==
    /\ pc = "join"
    /\ diff_result # Pending
    /\ files_result # Pending
    /\ IF ~diff_result.is_ok
       THEN Finish("error")
       ELSE Continue("diff_check")
    /\ UNCHANGED <<call_vars, cli, config, git_vars, run_vars, block_vars, prompt_vars, effects>>

\* let diff = diff_result?; let files = files_result?;
JoinResults ==
    /\ pc = "join"
    /\ diff_result # Pending
    /\ files_result # Pending
    /\ IF ~diff_result.is_ok \/ ~files_result.is_ok
       THEN Finish("error")
       ELSE Continue("diff_check")
    /\ UNCHANGED <<call_vars, cli, config, git_vars, run_vars, block_vars, prompt_vars, effects>>

\* if diff.trim().is_empty() { .. } is not entered
CheckDiff ==
    /\ pc = "diff_check"
    /\ ~diff_is_empty(diff_result.value)
    /\ Continue("client")
    /\ UNCHANGED <<call_vars, cli, config, git_vars, run_vars, block_vars, prompt_vars, effects>>

\* Command::new("git").args(["status", "--porcelain"]).output().await returns
GitStatus ==
    /\ pc = "diff_check"
    /\ diff_is_empty(diff_result.value)
    /\ git_result' \in StatusResults
    /\ Continue("status")
    /\ UNCHANGED <<call_vars, cli, config, join_vars, run_vars, block_vars, prompt_vars, effects>>

\* `?` on the output, then std::process::exit(0) or std::process::exit(1)
ExitOnStatus ==
    /\ pc = "status"
    /\ Finish(IF git_result.is_ok THEN status_exit(git_result.value) ELSE "error")
    /\ UNCHANGED <<call_vars, cli, config, git_vars, run_vars, block_vars, prompt_vars, effects>>

\* let client = Client::builder().build()?;
BuildClient ==
    /\ pc = "client"
    /\ \E ok \in BOOLEAN :
        IF ok THEN Continue("generate") ELSE Finish("error")
    /\ UNCHANGED <<call_vars, cli, config, git_vars, run_vars, block_vars, prompt_vars, effects>>

\* stream_commit_message(..).await? ; an empty message exits with status 1
StreamCommitMessage ==
    /\ pc = "generate"
    /\ \E r \in {Err, Ok(<<>>)} \cup {Ok(m) : m \in Messages} :
        /\ Log("stream_commit_message", r.value, r.is_ok)
        /\ IF ~r.is_ok
           THEN Finish("error") /\ UNCHANGED <<message, shown_message>>
           ELSE /\ message' = r.value
                /\ shown_message' = r.value
                /\ IF message_is_empty(r.value)
                   THEN Finish("exit1")
                   ELSE Continue("branch_check")
    /\ UNCHANGED <<call_vars, cli, config, git_vars, branch_already_handled, show_branch_option,
                   current_message, block_vars, prompt_vars>>

\* ------------------------------------------------------------------------
\* main: the alignment check before the review
\* ------------------------------------------------------------------------

\* Neither --branch nor --auto-branch: the block is skipped
SkipAlignment ==
    /\ pc = "branch_check"
    /\ ~alignment_requested(cli)
    /\ Continue("dry_run")
    /\ UNCHANGED <<call_vars, cli, config, git_vars, run_vars, block_vars, prompt_vars, effects>>

\* get_current_branch().await, called by the alignment block, returns
GetCurrentBranch ==
    /\ pc = "branch_check"
    /\ alignment_requested(cli)
    /\ git_result' \in {Err} \cup {Ok(b) : b \in CurrentBranches}
    /\ Continue("current_branch")
    /\ UNCHANGED <<call_vars, cli, config, join_vars, run_vars, block_vars, prompt_vars, effects>>

\* A variant of TryCurrentBranch: unwrap_or_default() in place of `?`
CurrentBranchOrDefault ==
    /\ pc = "current_branch"
    /\ current_branch' = IF git_result.is_ok THEN git_result.value ELSE <<>>
    /\ git_result' = Pending
    /\ Continue("recent")
    /\ UNCHANGED <<call_vars, cli, config, join_vars, run_vars, recent_commits, analysis,
                   suggested, branch_created, prompt_vars, effects>>

\* let current_branch = get_current_branch().await?;
TryCurrentBranch ==
    /\ pc = "current_branch"
    /\ IF git_result.is_ok
       THEN current_branch' = git_result.value /\ Continue("recent")
       ELSE Finish("error") /\ UNCHANGED current_branch
    /\ git_result' = Pending
    /\ UNCHANGED <<call_vars, cli, config, join_vars, run_vars, recent_commits, analysis,
                   suggested, branch_created, prompt_vars, effects>>

\* get_recent_commits(5).await returns
GetRecentCommits ==
    /\ pc = "recent"
    /\ git_result' \in RecentCommitsResults
    /\ Continue("recent_commits")
    /\ UNCHANGED <<call_vars, cli, config, join_vars, run_vars, block_vars, prompt_vars, effects>>

\* let recent_commits = get_recent_commits(5).await.unwrap_or_default();
RecentCommitsOrDefault ==
    /\ pc = "recent_commits"
    /\ recent_commits' = unwrap_or_default(git_result)
    /\ git_result' = Pending
    /\ Continue("analyze")
    /\ UNCHANGED <<call_vars, cli, config, join_vars, run_vars, current_branch, analysis,
                   suggested, branch_created, prompt_vars, effects>>

\* What analyze_branch_alignment returns, response by response
AnalysisResult == [resp \in AnalysisResponses |-> analyze_branch_alignment(resp)]

\* let analysis = analyze_branch_alignment(..).await?;
AnalyzeBranchAlignment ==
    /\ pc = "analyze"
    /\ \E resp \in AnalysisResponses :
        LET r == AnalysisResult[resp]
        IN  /\ Log("analyze_branch_alignment", current_branch, r.is_ok)
            /\ IF r.is_ok
               THEN analysis' = r.value /\ Continue("verdict")
               ELSE Finish("error") /\ UNCHANGED analysis
    /\ UNCHANGED <<call_vars, cli, config, git_vars, run_vars, current_branch, recent_commits,
                   suggested, branch_created, prompt_vars>>

\* The name main takes from a verdict, verdict by verdict and message by
\* message
SuggestedBranch ==
    [a \in {AnalysisResult[resp].value :
                resp \in {x \in AnalysisResponses : AnalysisResult[x].is_ok}},
     m \in Messages |-> suggested_or_fallback(a, m)]

\* if !analysis.matches { let suggested = ..unwrap_or_else(..); .. }
\* A matching verdict leaves the block.
ReadVerdict ==
    /\ pc = "verdict"
    /\ IF ~analysis.matches
       THEN /\ suggested' = SuggestedBranch[analysis, message]
            /\ UNCHANGED <<current_branch, recent_commits, analysis, branch_created>>
            /\ Continue("mismatch")
       ELSE DropBlock /\ Continue("dry_run")
    /\ UNCHANGED <<call_vars, cli, config, git_vars, run_vars, prompt_vars, effects>>

\* A variant of AutoCreateBranch that goes on when the creation failed
AutoCreateBranchIgnoringFailure ==
    /\ pc = "mismatch"
    /\ auto_accept(cli)
    /\ \E ok \in BOOLEAN : Log("create_and_switch_branch", suggested, ok)
    /\ branch_already_handled' = TRUE
    /\ DropBlock
    /\ Continue("dry_run")
    /\ UNCHANGED <<call_vars, cli, config, git_vars, message, show_branch_option,
                   current_message, shown_message, prompt_vars>>

\* create_and_switch_branch(&suggested).await?; branch_already_handled = true;
AutoCreateBranch ==
    /\ pc = "mismatch"
    /\ auto_accept(cli)
    /\ \E ok \in BOOLEAN :
        /\ Log("create_and_switch_branch", suggested, ok)
        /\ IF ok
           THEN branch_already_handled' = TRUE /\ DropBlock /\ Continue("dry_run")
           ELSE Finish("error") /\ UNCHANGED <<branch_already_handled, block_vars>>
    /\ UNCHANGED <<call_vars, cli, config, git_vars, message, show_branch_option,
                   current_message, shown_message, prompt_vars>>

\* prompt_branch_action(&current_branch, &suggested, &analysis.reason, true)
\* is entered: let mut current_suggestion = suggested.to_string()
PromptBranchPreflight ==
    /\ pc = "mismatch"
    /\ ~auto_accept(cli)
    /\ current_suggestion' = suggested
    /\ prompt_caller' = "preflight"
    /\ Log("prompt_branch_action", suggested, TRUE)
    /\ Continue("branch_prompt")
    /\ UNCHANGED <<call_vars, cli, config, git_vars, run_vars, block_vars, prompt_message, input>>

\* ------------------------------------------------------------------------
\* ui.rs: prompt_branch_action's loop
\* ------------------------------------------------------------------------

\* "e" | "edit": current_suggestion = edited
BranchPromptEdit ==
    /\ pc = "branch_prompt"
    /\ \E line \in InputLines, edited \in BranchNames :
        /\ branch_choice(line) = "edit"
        /\ input' = line
        /\ current_suggestion' = edited
    /\ UNCHANGED <<call_vars, cli, config, pc, outcome, git_vars, run_vars, block_vars,
                   prompt_message, prompt_caller, effects>>

\* _ => "Please enter y, n, or e"
BranchPromptInvalid ==
    /\ pc = "branch_prompt"
    /\ \E line \in InputLines :
        /\ branch_choice(line) = "invalid"
        /\ input' = line
    /\ UNCHANGED <<call_vars, cli, config, pc, outcome, git_vars, run_vars, block_vars,
                   prompt_message, current_suggestion, prompt_caller, effects>>

\* Create(name) returned to the mismatch block:
\* create_and_switch_branch(&name).await?; branch_already_handled = true;
PreflightBranchCreate ==
    /\ pc = "branch_prompt"
    /\ prompt_caller = "preflight"
    /\ \E line \in InputLines, ok \in BOOLEAN :
        /\ branch_choice(line) = "create"
        /\ Log("create_and_switch_branch", current_suggestion, ok)
        /\ IF ok
           THEN branch_already_handled' = TRUE /\ DropBlock /\ Continue("dry_run")
           ELSE Finish("error") /\ UNCHANGED <<branch_already_handled, block_vars>>
    /\ DropPrompt
    /\ UNCHANGED <<call_vars, cli, config, git_vars, message, show_branch_option,
                   current_message, shown_message>>

\* A variant of PreflightBranchSkip that leaves branch_already_handled as
\* it was
PreflightBranchSkipUnhandled ==
    /\ pc = "branch_prompt"
    /\ prompt_caller = "preflight"
    /\ \E line \in InputLines : branch_choice(line) = "skip"
    /\ DropBlock
    /\ DropPrompt
    /\ Continue("dry_run")
    /\ UNCHANGED <<call_vars, cli, config, git_vars, run_vars, effects>>

\* Skip returned to the mismatch block: branch_already_handled = true;
PreflightBranchSkip ==
    /\ pc = "branch_prompt"
    /\ prompt_caller = "preflight"
    /\ \E line \in InputLines : branch_choice(line) = "skip"
    /\ branch_already_handled' = TRUE
    /\ DropBlock
    /\ DropPrompt
    /\ Continue("dry_run")
    /\ UNCHANGED <<call_vars, cli, config, git_vars, message, show_branch_option,
                   current_message, shown_message, effects>>

\* A variant of SubflowBranchCreate that creates the branch under the name
\* first suggested
SubflowBranchCreateSuggested ==
    /\ pc = "branch_prompt"
    /\ prompt_caller = "subflow"
    /\ \E line \in InputLines, ok \in BOOLEAN :
        /\ branch_choice(line) = "create"
        /\ Log("create_and_switch_branch", suggested, ok)
        /\ IF ok
           THEN branch_created' = TRUE /\ Continue("after_branch")
           ELSE Finish("error") /\ UNCHANGED branch_created
    /\ DropPrompt
    /\ UNCHANGED <<call_vars, cli, config, git_vars, run_vars, current_branch, recent_commits,
                   analysis, suggested>>

\* Create(name) returned to the CreateBranch arm:
\* create_and_switch_branch(&name).await?; true
SubflowBranchCreate ==
    /\ pc = "branch_prompt"
    /\ prompt_caller = "subflow"
    /\ \E line \in InputLines, ok \in BOOLEAN :
        /\ branch_choice(line) = "create"
        /\ Log("create_and_switch_branch", current_suggestion, ok)
        /\ IF ok
           THEN branch_created' = TRUE /\ Continue("after_branch")
           ELSE Finish("error") /\ UNCHANGED branch_created
    /\ DropPrompt
    /\ UNCHANGED <<call_vars, cli, config, git_vars, run_vars, current_branch, recent_commits,
                   analysis, suggested>>

\* Skip returned to the CreateBranch arm: false
SubflowBranchSkip ==
    /\ pc = "branch_prompt"
    /\ prompt_caller = "subflow"
    /\ \E line \in InputLines : branch_choice(line) = "skip"
    /\ branch_created' = FALSE
    /\ DropPrompt
    /\ Continue("after_branch")
    /\ UNCHANGED <<call_vars, cli, config, git_vars, run_vars, current_branch, recent_commits,
                   analysis, suggested, effects>>

\* ------------------------------------------------------------------------
\* main: after the alignment check
\* ------------------------------------------------------------------------

\* if cli.dry_run { return Ok(()); }
DryRunReturn ==
    /\ pc = "dry_run"
    /\ dry_run_requested(cli)
    /\ Finish("dry_run")
    /\ UNCHANGED <<call_vars, cli, config, git_vars, run_vars, block_vars, prompt_vars, effects>>

\* if cli.yes || config.auto_commit { run_git_commit(&message).await?; }
AutoCommit ==
    /\ pc = "dry_run"
    /\ ~dry_run_requested(cli)
    /\ commit_without_asking(cli, config)
    /\ \E ok \in BOOLEAN :
        /\ Log("run_git_commit", message, ok)
        /\ Finish(IF ok THEN "committed" ELSE "error")
    /\ UNCHANGED <<call_vars, cli, config, git_vars, run_vars, block_vars, prompt_vars>>

\* else { let mut show_branch_option = !branch_already_handled;
\*        let mut current_message = message.clone(); loop { .. } }
EnterReview ==
    /\ pc = "dry_run"
    /\ ~dry_run_requested(cli)
    /\ ~commit_without_asking(cli, config)
    /\ show_branch_option' = initial_show_branch_option(branch_already_handled)
    /\ current_message' = message
    /\ Continue("loop")
    /\ UNCHANGED <<call_vars, cli, config, git_vars, message, branch_already_handled,
                   shown_message, block_vars, prompt_vars, effects>>

\* prompt_commit(&current_message, show_branch_option) is entered:
\* let mut current_message = message.to_string(); print_menu(..)
PromptCommit ==
    /\ pc = "loop"
    /\ prompt_message' = current_message
    /\ Log("prompt_commit", current_message, show_branch_option)
    /\ Continue("review")
    /\ UNCHANGED <<call_vars, cli, config, git_vars, run_vars, block_vars, current_suggestion,
                   prompt_caller, input>>

\* "y" | "yes" => Commit(current_message); run_git_commit(&final_message).await?
ReviewCommit ==
    /\ pc = "review"
    /\ \E line \in InputLines, ok \in BOOLEAN :
        /\ commit_choice(line, show_branch_option) = "commit"
        /\ Log("run_git_commit", prompt_message, ok)
        /\ Finish(IF ok THEN "committed" ELSE "error")
    /\ DropPrompt
    /\ UNCHANGED <<call_vars, cli, config, git_vars, run_vars, block_vars>>

\* A variant of ReviewCancel without the break: "Cancelled" is printed and
\* the loop goes round
ReviewCancelWithoutBreak ==
    /\ pc = "review"
    /\ \E line \in InputLines : commit_choice(line, show_branch_option) = "cancel"
    /\ DropPrompt
    /\ pc' = "loop"
    /\ outcome' = "cancelled"
    /\ UNCHANGED <<call_vars, cli, config, git_vars, run_vars, block_vars, effects>>

\* "n" | "no" => Cancel
ReviewCancel ==
    /\ pc = "review"
    /\ \E line \in InputLines : commit_choice(line, show_branch_option) = "cancel"
    /\ DropPrompt
    /\ Finish("cancelled")
    /\ UNCHANGED <<call_vars, cli, config, git_vars, run_vars, block_vars, effects>>

\* "e" | "edit" => current_message = edited; the message is printed again
ReviewEdit ==
    /\ pc = "review"
    /\ \E line \in InputLines, result \in EditorResults :
        /\ commit_choice(line, show_branch_option) = "edit"
        /\ input' = line
        /\ prompt_message' = edited_message(result, prompt_message)
        /\ shown_message' = edited_message(result, prompt_message)
    /\ UNCHANGED <<call_vars, cli, config, pc, outcome, git_vars, message,
                   branch_already_handled, show_branch_option, current_message,
                   block_vars, current_suggestion, prompt_caller, effects>>

\* A variant of ReviewCreateBranch in which main drops the message that
\* CreateBranch carries
ReviewCreateBranchDroppingMessage ==
    /\ pc = "review"
    /\ \E line \in InputLines :
        commit_choice(line, show_branch_option) = "create_branch"
    /\ DropPrompt
    /\ Continue("suggest")
    /\ UNCHANGED <<call_vars, cli, config, git_vars, run_vars, block_vars, effects>>

\* "b" | "branch" if show_branch_option => CreateBranch(current_message);
\* in main: current_message = msg
ReviewCreateBranch ==
    /\ pc = "review"
    /\ \E line \in InputLines :
        commit_choice(line, show_branch_option) = "create_branch"
    /\ current_message' = prompt_message
    /\ DropPrompt
    /\ Continue("suggest")
    /\ UNCHANGED <<call_vars, cli, config, git_vars, message, branch_already_handled,
                   show_branch_option, shown_message, block_vars, effects>>

\* A variant of ReviewInvalid that starts again from the message the prompt
\* was called with
ReviewInvalidResettingMessage ==
    /\ pc = "review"
    /\ \E line \in InputLines :
        /\ commit_choice(line, show_branch_option) = "invalid"
        /\ input' = line
    /\ prompt_message' = current_message
    /\ UNCHANGED <<call_vars, cli, config, pc, outcome, git_vars, run_vars, block_vars,
                   current_suggestion, prompt_caller, effects>>

\* _ => invalid_msg
ReviewInvalid ==
    /\ pc = "review"
    /\ \E line \in InputLines :
        /\ commit_choice(line, show_branch_option) = "invalid"
        /\ input' = line
    /\ UNCHANGED <<call_vars, cli, config, pc, outcome, git_vars, run_vars, block_vars,
                   prompt_message, current_suggestion, prompt_caller, effects>>

\* What generate_branch_suggestion returns, response by response
SuggestionResult == [resp \in SuggestionResponses |-> generate_branch_suggestion(resp)]

\* The name the CreateBranch arm takes from that result, message by message
SuggestionOrFallback ==
    [r \in {SuggestionResult[resp] : resp \in SuggestionResponses},
     m \in Messages |-> suggestion_or_fallback(r, m)]

\* let suggested = match generate_branch_suggestion(.., &current_message).await
\*     { Ok(name) => name, Err(_) => generate_fallback_branch(&current_message) };
GenerateBranchSuggestion ==
    /\ pc = "suggest"
    /\ \E resp \in SuggestionResponses :
        LET r == SuggestionResult[resp]
        IN  /\ Log("generate_branch_suggestion", current_message, r.is_ok)
            /\ suggested' = SuggestionOrFallback[r, current_message]
    /\ Continue("subflow_branch")
    /\ UNCHANGED <<call_vars, cli, config, git_vars, run_vars, current_branch, recent_commits,
                   analysis, branch_created, prompt_vars>>

\* get_current_branch().await, called by the CreateBranch arm, returns
SubflowGetCurrentBranch ==
    /\ pc = "subflow_branch"
    /\ git_result' \in {Err} \cup {Ok(b) : b \in CurrentBranches}
    /\ Continue("subflow_current")
    /\ UNCHANGED <<call_vars, cli, config, join_vars, run_vars, block_vars, prompt_vars, effects>>

\* let current_branch = get_current_branch().await.unwrap_or_default();
SubflowCurrentBranchOrDefault ==
    /\ pc = "subflow_current"
    /\ current_branch' = unwrap_or_default(git_result)
    /\ git_result' = Pending
    /\ Continue("subflow_prompt")
    /\ UNCHANGED <<call_vars, cli, config, join_vars, run_vars, recent_commits, analysis,
                   suggested, branch_created, prompt_vars, effects>>

\* prompt_branch_action(&current_branch, &suggested, "", false) is entered
PromptBranchSubflow ==
    /\ pc = "subflow_prompt"
    /\ current_suggestion' = suggested
    /\ prompt_caller' = "subflow"
    /\ Log("prompt_branch_action", suggested, FALSE)
    /\ Continue("branch_prompt")
    /\ UNCHANGED <<call_vars, cli, config, git_vars, run_vars, block_vars, prompt_message, input>>

\* A variant of CommitAfterBranch without the break: after the commit the
\* loop goes round
CommitAfterBranchWithoutBreak ==
    /\ pc = "after_branch"
    /\ commit_after_branch_now(config, branch_created)
    /\ \E ok \in BOOLEAN :
        /\ Log("run_git_commit", current_message, ok)
        /\ IF ok THEN Continue("loop") ELSE Finish("error")
    /\ UNCHANGED <<call_vars, cli, config, git_vars, run_vars, block_vars, prompt_vars>>

\* if config.commit_after_branch && branch_created
\*     { run_git_commit(&current_message).await?; break; }
CommitAfterBranch ==
    /\ pc = "after_branch"
    /\ commit_after_branch_now(config, branch_created)
    /\ \E ok \in BOOLEAN :
        /\ Log("run_git_commit", current_message, ok)
        /\ Finish(IF ok THEN "committed" ELSE "error")
    /\ UNCHANGED <<call_vars, cli, config, git_vars, run_vars, block_vars, prompt_vars>>

\* otherwise: println!("{}", current_message); show_branch_option = false;
\* the arm ends and the loop goes round
ReturnToReview ==
    /\ pc = "after_branch"
    /\ ~commit_after_branch_now(config, branch_created)
    /\ show_branch_option' = show_branch_option_after_subflow
    /\ DropBlock
    /\ Continue("loop")
    /\ UNCHANGED <<call_vars, cli, config, git_vars, message, branch_already_handled,
                   current_message, shown_message, prompt_vars, effects>>

Next ==
    \/ GetApiKey
    \/ StageAll
    \/ GetGitDiff
    \/ GetStagedFiles
    \/ JoinResults
    \/ CheckDiff
    \/ GitStatus
    \/ ExitOnStatus
    \/ BuildClient
    \/ StreamCommitMessage
    \/ SkipAlignment
    \/ GetCurrentBranch
    \/ TryCurrentBranch
    \/ GetRecentCommits
    \/ RecentCommitsOrDefault
    \/ AnalyzeBranchAlignment
    \/ ReadVerdict
    \/ AutoCreateBranch
    \/ PromptBranchPreflight
    \/ BranchPromptEdit
    \/ BranchPromptInvalid
    \/ PreflightBranchCreate
    \/ PreflightBranchSkip
    \/ SubflowBranchCreate
    \/ SubflowBranchSkip
    \/ DryRunReturn
    \/ AutoCommit
    \/ EnterReview
    \/ PromptCommit
    \/ ReviewCommit
    \/ ReviewCancel
    \/ ReviewEdit
    \/ ReviewCreateBranch
    \/ ReviewInvalid
    \/ GenerateBranchSuggestion
    \/ SubflowGetCurrentBranch
    \/ SubflowCurrentBranchOrDefault
    \/ PromptBranchSubflow
    \/ CommitAfterBranch
    \/ ReturnToReview

Spec == Init /\ [][Next]_vars

\* The user answers the review prompt with commit or cancel
ReviewAnswered == ReviewCommit \/ ReviewCancel

\* The user answers the branch prompt with create or skip
BranchAnswered ==
    \/ PreflightBranchCreate
    \/ PreflightBranchSkip
    \/ SubflowBranchCreate
    \/ SubflowBranchSkip

\* A step of main that waits for no line of the user: a call returns, or
\* main goes from one statement to the next
MainStep ==
    \/ GetApiKey
    \/ StageAll
    \/ GetGitDiff
    \/ GetStagedFiles
    \/ JoinResults
    \/ CheckDiff
    \/ GitStatus
    \/ ExitOnStatus
    \/ BuildClient
    \/ StreamCommitMessage
    \/ SkipAlignment
    \/ GetCurrentBranch
    \/ TryCurrentBranch
    \/ GetRecentCommits
    \/ RecentCommitsOrDefault
    \/ AnalyzeBranchAlignment
    \/ ReadVerdict
    \/ AutoCreateBranch
    \/ PromptBranchPreflight
    \/ DryRunReturn
    \/ AutoCommit
    \/ EnterReview
    \/ PromptCommit
    \/ GenerateBranchSuggestion
    \/ SubflowGetCurrentBranch
    \/ SubflowCurrentBranchOrDefault
    \/ PromptBranchSubflow
    \/ CommitAfterBranch
    \/ ReturnToReview

\* The workflow when every call returns and the user, asked again and
\* again, at some time gives an answer that ends the prompt: commit or
\* cancel at the review prompt, create or skip at the branch prompt
LiveSpec ==
    /\ Init
    /\ [][Next]_vars
    /\ WF_vars(MainStep)
    /\ WF_vars(ReviewAnswered)
    /\ WF_vars(BranchAnswered)

\* ------------------------------------------------------------------------
\* The helpers of branch.rs, each called on its own with arguments drawn
\* from bounded sets
\* ------------------------------------------------------------------------

\* The characters of the texts: a filler word of one letter, its capital, a
\* letter that is no filler word, a blank, a symbol, the hyphen, a letter
\* outside ASCII
\* The last two are e-acute and the capital sigma
TextAlphabet == {"a", "A", "b", " ", "!", "-", "U+00E9", "U+03A3"}

MaxTextLen == 3

MaxWords == 2

\* Every text of at most n characters of the alphabet
TextsUpTo(n) == UNION {[1..k -> TextAlphabet] : k \in 0..n}

\* "Fix the bug", "add refresh token now please"
LongTexts == {
    <<"F", "i", "x", " ", "t", "h", "e", " ", "b", "u", "g">>,
    <<"a", "d", "d", " ", "r", "e", "f", "r", "e", "s", "h", " ", "t", "o", "k", "e",
      "n", " ", "n", "o", "w", " ", "p", "l", "e", "a", "s", "e">> }

SlugifyCalls ==
    {[fn |-> "slugify", text |-> t, max_words |-> n] :
        t \in TextsUpTo(MaxTextLen) \cup LongTexts, n \in 0..MaxWords}
    \cup {[fn |-> "slugify", text |-> t, max_words |-> 3] : t \in LongTexts}

\* The commit messages: a header (a type or none, a scope or none, in lower
\* case or not, closed or not), a colon or none, a description, and what
\* follows the first line
MessageHeads == {
    <<>>,
    <<"f", "i", "x">>,
    <<"F", "i", "x">>,
    <<"f", "i", "x", "(", "u", "i", ")">>,
    <<"f", "i", "x", "(", "M", "y", " ", "U", "i", ")">>,
    <<"f", "i", "x", "(", ")">>,
    <<"f", "i", "x", "(", "u", "i">>,
    <<"f", "i", "x", "(", "u", "i", ")", " ">> }

MessageColons == {<<>>, <<":">>, <<":", " ">>}

MaxDescLen == 2

\* "add refresh token", "login bug"
LongDescriptions == {
    <<"a", "d", "d", " ", "r", "e", "f", "r", "e", "s", "h", " ", "t", "o", "k", "e", "n">>,
    <<"l", "o", "g", "i", "n", " ", "b", "u", "g">> }

MessageTails == {<<>>, <<"\n", "\n", "b", ":", "c">>, <<"\r", "\n">>}

\* "feat(auth): add refresh token", "fix login bug"
ExampleMessages == {MessagePool[1], MessagePool[2]}

FallbackCalls ==
    {[fn |-> "generate_fallback_branch", text |-> h \o c \o d \o t] :
        h \in MessageHeads, c \in MessageColons,
        d \in TextsUpTo(MaxDescLen) \cup LongDescriptions, t \in MessageTails}
    \cup {[fn |-> "generate_fallback_branch", text |-> m] : m \in ExampleMessages}

\* Response bodies of the AlignmentVerdict shape, as the request asks for
\* them and as a JSON writer may lay them out
ShapedBodies ==
    {Verdict(TRUE, None), Verdict(FALSE, Some(BranchNamePool[1])),
     \* { "matches" : true , "reason" : "ok" }
     <<"{", " ", "\"", "m", "a", "t", "c", "h", "e", "s", "\"", " ", ":",
       " ", "t", "r", "u", "e", " ", ",", " ", "\"", "r", "e", "a", "s",
       "o", "n", "\"", " ", ":", " ", "\"", "o", "k", "\"", " ", "}">>,
     \* {"reason":"ok","matches":false}
     <<"{", "\"", "r", "e", "a", "s", "o", "n", "\"", ":", "\"", "o", "k",
       "\"", ",", "\"", "m", "a", "t", "c", "h", "e", "s", "\"", ":", "f",
       "a", "l", "s", "e", "}">>,
     \* {"matches":true,"reason":"ok","suggested_branch":null}
     <<"{", "\"", "m", "a", "t", "c", "h", "e", "s", "\"", ":", "t", "r",
       "u", "e", ",", "\"", "r", "e", "a", "s", "o", "n", "\"", ":", "\"",
       "o", "k", "\"", ",", "\"", "s", "u", "g", "g", "e", "s", "t", "e",
       "d", "_", "b", "r", "a", "n", "c", "h", "\"", ":", "n", "u", "l",
       "l", "}">>,
     \* {"matches":true,"reason":"\u006fk"}
     <<"{", "\"", "m", "a", "t", "c", "h", "e", "s", "\"", ":", "t", "r",
       "u", "e", ",", "\"", "r", "e", "a", "s", "o", "n", "\"", ":", "\"",
       "\\", "u", "0", "0", "6", "f", "k", "\"", "}">>}

\* Response bodies of another shape
OtherBodies ==
    {NotJson, <<>>,
     \* {"reason":"ok"}
     <<"{", "\"", "r", "e", "a", "s", "o", "n", "\"", ":", "\"", "o", "k",
       "\"", "}">>,
     \* {"matches":true}
     <<"{", "\"", "m", "a", "t", "c", "h", "e", "s", "\"", ":", "t", "r",
       "u", "e", "}">>,
     \* {"matches":"true","reason":"ok"}
     <<"{", "\"", "m", "a", "t", "c", "h", "e", "s", "\"", ":", "\"", "t",
       "r", "u", "e", "\"", ",", "\"", "r", "e", "a", "s", "o", "n", "\"",
       ":", "\"", "o", "k", "\"", "}">>,
     \* {"matches":true,"reason":1}
     <<"{", "\"", "m", "a", "t", "c", "h", "e", "s", "\"", ":", "t", "r",
       "u", "e", ",", "\"", "r", "e", "a", "s", "o", "n", "\"", ":", "1",
       "}">>,
     \* {"matches":true,"reason":"ok","suggested_branch":5}
     <<"{", "\"", "m", "a", "t", "c", "h", "e", "s", "\"", ":", "t", "r",
       "u", "e", ",", "\"", "r", "e", "a", "s", "o", "n", "\"", ":", "\"",
       "o", "k", "\"", ",", "\"", "s", "u", "g", "g", "e", "s", "t", "e",
       "d", "_", "b", "r", "a", "n", "c", "h", "\"", ":", "5", "}">>,
     \* {"matches":true,"reason":"ok","matches":true}
     <<"{", "\"", "m", "a", "t", "c", "h", "e", "s", "\"", ":", "t", "r",
       "u", "e", ",", "\"", "r", "e", "a", "s", "o", "n", "\"", ":", "\"",
       "o", "k", "\"", ",", "\"", "m", "a", "t", "c", "h", "e", "s", "\"",
       ":", "t", "r", "u", "e", "}">>,
     \* {"matches":true,"reason":"ok"} x
     <<"{", "\"", "m", "a", "t", "c", "h", "e", "s", "\"", ":", "t", "r",
       "u", "e", ",", "\"", "r", "e", "a", "s", "o", "n", "\"", ":", "\"",
       "o", "k", "\"", "}", " ", "x">>,
     \* true
     <<"t", "r", "u", "e">>,
     \* {"matches":true,"reason":"ok","extra":1}
     <<"{", "\"", "m", "a", "t", "c", "h", "e", "s", "\"", ":", "t", "r",
       "u", "e", ",", "\"", "r", "e", "a", "s", "o", "n", "\"", ":", "\"",
       "o", "k", "\"", ",", "\"", "e", "x", "t", "r", "a", "\"", ":", "1",
       "}">>,
     \* [true,"ok",null]
     <<"[", "t", "r", "u", "e", ",", "\"", "o", "k", "\"", ",", "n", "u",
       "l", "l", "]">>,
     \* [true,"ok"]
     <<"[", "t", "r", "u", "e", ",", "\"", "o", "k", "\"", "]">>,
     \* {"matches":true,"reason":"o<backspace>k"}
     <<"{", "\"", "m", "a", "t", "c", "h", "e", "s", "\"", ":", "t", "r",
       "u", "e", ",", "\"", "r", "e", "a", "s", "o", "n", "\"", ":", "\"",
       "o", "U+0008", "k", "\"", "}">>}

\* What can stand around a body: whitespace, and a fence of three
\* backquotes, with a language tag on the opening one or without
Fence == <<"U+0060", "U+0060", "U+0060">>

\* The tags are none, json, JSON and js; the blanks are none, a space, a
\* line feed with a space and a tab, and a form feed
Wrappers ==
    LET LanguageTags == {<<>>, <<"j", "s", "o", "n">>, <<"J", "S", "O", "N">>,
                         <<"j", "s">>}
        Blanks == {<<>>, <<" ">>, <<"\n", " ", "\t">>, <<"U+000C">>}
    IN  {[fenced |-> FALSE, tag |-> <<>>, blank |-> b] : b \in Blanks}
        \cup {[fenced |-> TRUE, tag |-> t, blank |-> b] : t \in LanguageTags,
                                                          b \in Blanks}

\* The body in its wrapper: blank, fence and tag, line break, body, line
\* break, fence, blank
wrapped(body, w) ==
    IF w.fenced
    THEN w.blank \o Fence \o w.tag \o <<"\n">> \o body \o <<"\n">> \o Fence \o w.blank
    ELSE w.blank \o body \o w.blank

AnalysisCalls ==
    {[fn |-> "analyze_branch_alignment", body |-> b, wrapper |-> w,
      resp |-> [sent |-> TRUE, success |-> TRUE, choices |-> <<wrapped(b, w)>>]] :
        b \in ShapedBodies \cup OtherBodies, w \in Wrappers}
    \cup {[fn |-> "analyze_branch_alignment", body |-> <<>>,
           wrapper |-> [fenced |-> FALSE, tag |-> <<>>, blank |-> <<>>],
           resp |-> r] :
              r \in {[sent |-> FALSE, success |-> FALSE, choices |-> <<>>],
                     [sent |-> TRUE, success |-> FALSE, choices |-> <<>>],
                     [sent |-> TRUE, success |-> TRUE, choices |-> <<>>]}}

CallInit ==
    /\ cli = [yes |-> FALSE, dry_run |-> FALSE, branch |-> FALSE,
              auto_branch |-> FALSE]
    /\ config = [auto_commit |-> FALSE, commit_after_branch |-> FALSE]
    /\ MainEntry
    /\ \/ call \in SlugifyCalls
       \/ call \in FallbackCalls
       \/ call \in AnalysisCalls
    /\ returned = NotReturned

\* slugify(text, max_words) returns
CallSlugify ==
    /\ call.fn = "slugify"
    /\ returned = NotReturned
    /\ returned' = Returned(slugify(call.text, call.max_words))
    /\ UNCHANGED <<main_vars, call>>

\* generate_fallback_branch(commit_message) returns
CallGenerateFallbackBranch ==
    /\ call.fn = "generate_fallback_branch"
    /\ returned = NotReturned
    /\ returned' = Returned(generate_fallback_branch(call.text))
    /\ UNCHANGED <<main_vars, call>>

\* analyze_branch_alignment(...) returns, the response being call.resp
CallAnalyzeBranchAlignment ==
    /\ call.fn = "analyze_branch_alignment"
    /\ returned = NotReturned
    /\ returned' = Returned(analyze_branch_alignment(call.resp))
    /\ UNCHANGED <<main_vars, call>>

CallNext ==
    \/ CallSlugify
    \/ CallGenerateFallbackBranch
    \/ CallAnalyzeBranchAlignment

CallSpec == CallInit /\ [][CallNext]_vars

\* ------------------------------------------------------------------------
\* Properties
\* ------------------------------------------------------------------------

Last(q) == q[Len(q)]

\* The positions of the calls of op in the log
CallsOf(op) == {i \in 1..Len(effects) : effects[i].op = op}

NumCalls(op) == Cardinality(CallsOf(op))

\* A branch decision was made before position i of the log: a branch was
\* created, or the create/skip prompt was shown
ResolvedBefore(i) ==
    \E j \in 1..(i - 1) :
        effects[j].op \in {"create_and_switch_branch", "prompt_branch_action"}

\* Position i of the log is the create/skip prompt of the CreateBranch arm
SubflowPromptAt(i) ==
    /\ i \in 1..Len(effects)
    /\ effects[i].op = "prompt_branch_action"
    /\ ~effects[i].flag

\* C1: in every run create_and_switch_branch is called at most once.
C1_BranchCreatedAtMostOnce == NumCalls("create_and_switch_branch") <= 1

\* A branch was created before the review, and the user then typed "b" at
\* the review prompt, which no longer offers the option.
C1_Witness ==
    /\ NumCalls("create_and_switch_branch") = 1
    /\ pc = "review"
    /\ input = <<"b", "\n">>

\* C2: with --auto-branch a failed alignment request does not end the run:
\* the workflow goes on to branch resolution with the name
\* generate_fallback_branch(message).
C2_ClassifierFailureFallsBack ==
    (/\ cli.auto_branch
     /\ effects # <<>>
     /\ Last(effects).op = "analyze_branch_alignment"
     /\ ~Last(effects).flag)
    => (/\ outcome # "error"
        /\ pc = "mismatch"
        /\ suggested = generate_fallback_branch(message))

\* C3: after an alignment answer on a protected branch the workflow is in
\* branch resolution, whatever the verdict says.
C3_ProtectedBranchAlwaysMismatched ==
    (/\ effects # <<>>
     /\ Last(effects).op = "analyze_branch_alignment"
     /\ Last(effects).flag
     /\ Last(effects).arg \in PROTECTED_BRANCHES)
    => pc \in {"verdict", "mismatch"}

\* C4 as stated: the review prompt offers create-branch-first only in a run
\* with --branch or --auto-branch, and without them the CreateBranch arm is
\* never entered.
C4_OptionOnlyWithAlignment ==
    /\ \A i \in CallsOf("prompt_commit") :
        effects[i].flag => alignment_requested(cli)
    /\ pc \in {"suggest", "subflow_branch", "subflow_current", "subflow_prompt",
             "after_branch"}
        => alignment_requested(cli)

\* C4 as amended: the review prompt offers create-branch-first exactly when
\* no branch decision was made earlier in the run, with or without the
\* alignment flags, and the CreateBranch arm is entered only from a prompt
\* that offered it.
C4_OptionIffUnresolved ==
    /\ \A i \in CallsOf("prompt_commit") : effects[i].flag = ~ResolvedBefore(i)
    /\ pc = "suggest"
        => /\ Last(effects).op = "prompt_commit"
           /\ Last(effects).flag

\* A run without --branch and --auto-branch has entered the CreateBranch arm.
C4_Witness ==
    /\ ~alignment_requested(cli)
    /\ pc = "suggest"
    /\ Last(effects).flag

\* C5: when the verdict is a mismatch, the name handed to branch resolution
\* (the automatic creation or the create/skip/edit prompt) is the service's
\* suggested_branch when there is one and generate_fallback_branch(message)
\* otherwise.
C5_MismatchHandsOverSuggestion ==
    [][(pc = "mismatch" /\ pc' # "mismatch")
        => LET expected == IF analysis.suggested_branch.is_some
                           THEN analysis.suggested_branch.value
                           ELSE generate_fallback_branch(message)
           IN  /\ ~analysis.matches
               /\ suggested = expected
               /\ Last(effects').op \in {"create_and_switch_branch",
                                         "prompt_branch_action"}
               /\ Last(effects').arg = expected]_vars

\* The prompt before the review was entered with the fallback name, the
\* service having suggested none.
C5_Witness ==
    /\ pc = "branch_prompt"
    /\ prompt_caller = "preflight"
    /\ ~analysis.matches
    /\ ~analysis.suggested_branch.is_some
    /\ Last(effects).arg = generate_fallback_branch(message)

\* C6: in the CreateBranch arm a failed branch-name request does not end the
\* run: the name is generate_fallback_branch of the current message and the
\* next call is the create/skip/edit prompt with that name.
C6_SuggestionFailureAbsorbed ==
    \A i \in CallsOf("generate_branch_suggestion") :
        ~effects[i].flag =>
            IF i = Len(effects)
            THEN /\ outcome = "running"
                 /\ pc \in {"subflow_branch", "subflow_current", "subflow_prompt"}
                 /\ suggested = generate_fallback_branch(current_message)
                 /\ effects[i].arg = current_message
            ELSE effects[i + 1] = Effect("prompt_branch_action",
                                         generate_fallback_branch(effects[i].arg),
                                         FALSE)

\* The request failed for an edited message and the prompt was shown.
C6_Witness ==
    \E i \in CallsOf("generate_branch_suggestion") :
        /\ ~effects[i].flag
        /\ effects[i].arg # message
        /\ i < Len(effects)
        /\ pc = "branch_prompt"

\* C7: in an interactive run every commit is made with the current message:
\* the text of the last edit, or the generated message if there was none.
C7_CommitsCurrentMessage ==
    ~commit_without_asking(cli, config)
        => \A i \in CallsOf("run_git_commit") : effects[i].arg = shown_message

\* The message was edited, then a branch was created in the CreateBranch
\* arm, then the commit was made.
C7_Witness ==
    /\ ~commit_without_asking(cli, config)
    /\ \E i \in CallsOf("run_git_commit") :
        /\ effects[i].arg # message
        /\ \E j \in 1..(i - 1) : SubflowPromptAt(j)

\* C8: in the CreateBranch arm, with commit_after_branch and a branch
\* created, the next call is the commit of the current message and the run
\* ends there, committed if the commit succeeds; otherwise (skip, or
\* commit_after_branch off) the next call is the review prompt without the
\* create-branch-first option.
C8_AfterBranchSubflow ==
    \A i \in 1..Len(effects) :
        SubflowPromptAt(i) =>
            LET created == /\ i < Len(effects)
                           /\ effects[i + 1].op = "create_and_switch_branch"
                           /\ effects[i + 1].flag
                k == IF created THEN i + 1 ELSE i
            IN  /\ (pc = "after_branch" /\ Len(effects) = k => branch_created = created)
                /\ Len(effects) > k /\ effects[k + 1].op # "create_and_switch_branch" =>
                    IF created /\ config.commit_after_branch
                    THEN /\ effects[k + 1].op = "run_git_commit"
                         /\ effects[k + 1].arg = shown_message
                         /\ effects[k + 1].arg = current_message
                         /\ Len(effects) = k + 1
                         /\ pc = "done"
                         /\ outcome = IF effects[k + 1].flag THEN "committed" ELSE "error"
                    ELSE /\ effects[k + 1].op = "prompt_commit"
                         /\ ~effects[k + 1].flag
                         /\ effects[k + 1].arg = current_message

\* With commit_after_branch, a branch was created in the arm and the run
\* ended committed.
C8_Witness ==
    /\ config.commit_after_branch
    /\ outcome = "committed"
    /\ Len(effects) >= 3
    /\ SubflowPromptAt(Len(effects) - 2)
    /\ effects[Len(effects) - 1].op = "create_and_switch_branch"

\* C9: with --yes or auto_commit, and without --dry-run, no prompt is shown:
\* neither the review prompt nor the branch create/skip prompt.
C9_NoPromptWhenCommittingWithoutAsking ==
    (commit_without_asking(cli, config) /\ ~cli.dry_run)
        => /\ NumCalls("prompt_commit") = 0
           /\ NumCalls("prompt_branch_action") = 0

\* C10: with --dry-run the commit is never made and the review prompt is
\* never shown.
C10_DryRunNeverCommits ==
    cli.dry_run
        => /\ NumCalls("run_git_commit") = 0
           /\ NumCalls("prompt_commit") = 0

\* A run with --dry-run and --yes ended at the dry-run return.
C10_Witness ==
    /\ cli.dry_run
    /\ cli.yes
    /\ outcome = "dry_run"

\* The step about to be taken handles a failed call of get_current_branch
\* made by the alignment block
CurrentBranchFailed == pc = "current_branch" /\ ~git_result.is_ok

\* Both futures of the join have completed and one of them failed
DiffOrFilesFailed ==
    /\ pc = "join"
    /\ diff_result # Pending
    /\ files_result # Pending
    /\ ~diff_result.is_ok \/ ~files_result.is_ok

RecentCommitsFailed == pc = "recent_commits" /\ ~git_result.is_ok

SubflowCurrentBranchFailed == pc = "subflow_current" /\ ~git_result.is_ok

\* The step taken made a call of create_and_switch_branch or run_git_commit
\* that failed
CreateOrCommitFailed ==
    /\ effects' # effects
    /\ Last(effects').op \in {"create_and_switch_branch", "run_git_commit"}
    /\ ~Last(effects').flag

EndsInError == pc' = "done" /\ outcome' = "error"

\* C11 as stated: a failure of get_current_branch, get_recent_commits,
\* get_staged_files, get_git_diff, create_and_switch_branch or
\* run_git_commit ends the run with the error; main never goes on with a
\* default in its place.
C11_GitFailuresEndTheRun ==
    [][(\/ CurrentBranchFailed
        \/ DiffOrFilesFailed
        \/ RecentCommitsFailed
        \/ SubflowCurrentBranchFailed
        \/ CreateOrCommitFailed) => EndsInError]_vars

\* C11 as amended: a failure of get_git_diff, get_staged_files, of
\* get_current_branch in the alignment block, of create_and_switch_branch
\* or of run_git_commit ends the run with the error and with no further
\* call; a failure of get_recent_commits, and of get_current_branch in the
\* CreateBranch arm, is replaced by the empty text and the run goes on.
C11_GitFailuresEndTheRunExceptContext ==
    [][/\ (CurrentBranchFailed \/ DiffOrFilesFailed)
            => EndsInError /\ effects' = effects
       /\ CreateOrCommitFailed => EndsInError
       /\ RecentCommitsFailed
            => /\ pc' = "analyze"
               /\ outcome' = "running"
               /\ recent_commits' = <<>>
       /\ SubflowCurrentBranchFailed
            => /\ pc' = "subflow_prompt"
               /\ outcome' = "running"
               /\ current_branch' = <<>>]_vars

\* With --branch or --auto-branch the run ended in error right after the
\* message was generated: get_current_branch failed.
C11_Witness ==
    /\ alignment_requested(cli)
    /\ pc = "done"
    /\ outcome = "error"
    /\ Len(effects) = 1
    /\ Last(effects) = Effect("stream_commit_message", message, TRUE)
    /\ message # <<>>

\* C12: when the staged diff is empty the run ends without generating a
\* message, checking the branch, creating a branch or committing: with
\* status 0 if `git status` prints nothing, with status 1 if it prints
\* something.
C12_EmptyDiffExits ==
    (/\ diff_result # Pending
     /\ diff_result.is_ok
     /\ trim(diff_result.value) = <<>>)
    => /\ effects = <<>>
       /\ pc \in {"join", "diff_check", "status", "done"}
       /\ pc = "done" /\ files_result.is_ok /\ git_result.is_ok
            => outcome = (IF trim(git_result.value) = <<>> THEN "exit0" ELSE "exit1")

\* The diff was blank, `git status` listed an untracked file, and the
\* run ended with status 1.
C12_Witness ==
    /\ diff_result = Ok(<<" ", "\n">>)
    /\ pc = "done"
    /\ outcome = "exit1"
    /\ git_result.is_ok
    /\ Len(git_result.value) > 1

\* C13: when stream_commit_message returns the empty message the run ends
\* with status 1 and nothing follows: no alignment request, no branch, no
\* prompt, no commit.
C13_EmptyMessageExits ==
    \A i \in CallsOf("stream_commit_message") :
        (effects[i].flag /\ effects[i].arg = <<>>)
            => /\ pc = "done"
               /\ outcome = "exit1"
               /\ Len(effects) = 1

\* With --yes and --auto-branch, the message came back empty and the run
\* ended with status 1.
C13_Witness ==
    /\ cli.yes
    /\ cli.auto_branch
    /\ effects = <<Effect("stream_commit_message", <<>>, TRUE)>>
    /\ outcome = "exit1"

\* ------------------------------------------------------------------------
\* slugify as the specification describes it
\* ------------------------------------------------------------------------

\* The words of a text: the pairs <<i, j>> such that text[i..j] holds no
\* whitespace and is bounded by whitespace or by the ends of the text
RefWords(text) ==
    {w \in (1..Len(text)) \X (1..Len(text)) :
        /\ w[1] <= w[2]
        /\ \A k \in w[1]..w[2] : ~is_whitespace(text[k])
        /\ w[1] = 1 \/ is_whitespace(text[w[1] - 1])
        /\ w[2] = Len(text) \/ is_whitespace(text[w[2] + 1])}

\* The word w of text is a filler word, whatever its case
RefIsFiller(text, w) == to_lowercase(SubSeq(text, w[1], w[2])) \in FILLER_WORDS

\* The first n words of a set of words
RefFirst(ws, n) == {w \in ws : Cardinality({v \in ws : v[1] < w[1]}) < n}

\* The words the slug is made of
RefChosen(text, n) ==
    LET kept == RefFirst({w \in RefWords(text) : ~RefIsFiller(text, w)}, n)
    IN  IF kept = {} THEN RefFirst(RefWords(text), n) ELSE kept

\* The words of ws as they are written, in the order of the text, with a
\* hyphen between two of them
RECURSIVE RefJoin(_, _)
RefJoin(text, ws) ==
    IF ws = {} THEN <<>>
    ELSE LET w == CHOOSE w \in ws : \A v \in ws : w[1] <= v[1]
         IN  SubSeq(text, w[1], w[2])
             \o (IF ws = {w} THEN <<>> ELSE <<"-">>)
             \o RefJoin(text, ws \ {w})

\* The characters of s that are alphanumeric or the hyphen
RefStrip(s) ==
    LET kept == {i \in 1..Len(s) : is_alphanumeric(s[i]) \/ s[i] = "-"}
    IN  [k \in 1..Cardinality(kept) |->
            s[CHOOSE i \in kept : Cardinality({j \in kept : j < i}) = k - 1]]

\* The chosen words joined, then in lower case as a whole, then stripped
RefSlugify(text, n) == RefStrip(to_lowercase(RefJoin(text, RefChosen(text, n))))

SlugifyReturned == call.fn = "slugify" /\ returned.returned

\* C14: every character of slugify(text, max_words) is a lowercase ASCII
\* letter, an ASCII digit or the hyphen.
C14_SlugInAsciiAlphabet ==
    SlugifyReturned
        => \A i \in 1..Len(returned.value) :
              returned.value[i] \in Range(AsciiLower) \cup Range(AsciiDigit) \cup {"-"}

\* C15 as stated: slugify(text, n) is not empty unless text is empty or
\* holds whitespace only.
C15_SlugNonEmptyUnlessBlank ==
    (SlugifyReturned /\ \E i \in 1..Len(call.text) : ~is_whitespace(call.text[i]))
        => returned.value # <<>>

\* C16: slugify(text, max_words) is the text split on whitespace, without
\* the filler words (whatever their case), cut to the first max_words
\* words, or, if and only if no word is left, the first max_words words of
\* the text; joined by hyphens, in lower case, without the characters that
\* are neither alphanumeric nor the hyphen.
C16_SlugifyIsTheReference ==
    SlugifyReturned => returned.value = RefSlugify(call.text, call.max_words)

\* "add refresh token now please" cut to three words: the filler word is
\* dropped and the fifth word is not reached.
C16_Witness ==
    /\ SlugifyReturned
    /\ call.max_words = 3
    /\ Len(call.text) > 20
    /\ returned.value = <<"r", "e", "f", "r", "e", "s", "h", "-", "t", "o", "k", "e",
                          "n", "-", "n", "o", "w">>

\* ------------------------------------------------------------------------
\* generate_fallback_branch as the specification describes it
\* ------------------------------------------------------------------------

\* The first line of a message: the text before its first line ending
\* ("\n" or "\r\n"), the whole message if it has none
RefFirstLine(msg) ==
    LET ends == {i \in 1..Len(msg) : msg[i] = "\n"}
    IN  IF ends = {} THEN msg
        ELSE LET e == CHOOSE i \in ends : \A j \in ends : i <= j
             IN  IF e > 1 /\ msg[e - 1] = "\r"
                 THEN SubSeq(msg, 1, e - 2)
                 ELSE SubSeq(msg, 1, e - 1)

\* line[1..p] is a type: one or more lowercase ASCII letters
RefIsType(line, p) ==
    p >= 1 /\ \A k \in 1..p : line[k] \in Range(AsciiLower)

\* line[d..] is a description that follows the colon at position c:
\* it is not empty and only whitespace separates it from the colon
RefIsDescription(line, c, d) ==
    /\ line[c] = ":"
    /\ c < d
    /\ d <= Len(line)
    /\ \A k \in (c + 1)..(d - 1) : is_whitespace(line[k])

\* The names of the readings of line as type(scope): description
RefScopedNames(line) ==
    {SubSeq(line, 1, p) \o <<"/">> \o SubSeq(line, p + 2, q - 1) \o <<"-">>
        \o slugify(SubSeq(line, d, Len(line)), 3) :
        <<p, q, d>> \in {t \in (1..Len(line)) \X (1..Len(line)) \X (1..Len(line)) :
            /\ RefIsType(line, t[1])
            /\ t[1] < Len(line)
            /\ line[t[1] + 1] = "("
            /\ t[1] + 2 < t[2]
            /\ \A k \in (t[1] + 2)..(t[2] - 1) : line[k] # ")"
            /\ line[t[2]] = ")"
            /\ t[2] < Len(line)
            /\ RefIsDescription(line, t[2] + 1, t[3])}}

\* The names of the readings of line as type: description
RefPlainNames(line) ==
    {SubSeq(line, 1, p) \o <<"/">> \o slugify(SubSeq(line, d, Len(line)), 3) :
        <<p, d>> \in {t \in (1..Len(line)) \X (1..Len(line)) :
            /\ RefIsType(line, t[1])
            /\ t[1] < Len(line)
            /\ RefIsDescription(line, t[1] + 1, t[2])}}

FallbackReturned == call.fn = "generate_fallback_branch" /\ returned.returned

\* C17: generate_fallback_branch returns for every message, and reads its
\* first line only: the name is type/scope-slugify(description, 3) if the
\* line reads type(scope): description, type/slugify(description, 3) if it
\* reads type: description, and feat/slugify(line, 3) otherwise;
\* "feat(auth): add refresh token" gives "feat/auth-refresh-token" and
\* "fix login bug" gives "feat/login-bug".
C17_FallbackBranchByFirstLine ==
    FallbackReturned
        => LET line == RefFirstLine(call.text)
               scoped == RefScopedNames(line)
               plain == RefPlainNames(line)
           IN  /\ returned.value \in
                    (IF scoped # {} THEN scoped
                     ELSE IF plain # {} THEN plain
                     ELSE {<<"f", "e", "a", "t", "/">> \o slugify(line, 3)})
               /\ Cardinality(scoped \cup plain) <= 1
               /\ call.text = MessagePool[1]
                    => returned.value =
                         <<"f", "e", "a", "t", "/", "a", "u", "t", "h", "-", "r", "e",
                           "f", "r", "e", "s", "h", "-", "t", "o", "k", "e", "n">>
               /\ call.text = MessagePool[2]
                    => returned.value =
                         <<"f", "e", "a", "t", "/", "l", "o", "g", "i", "n", "-", "b",
                           "u", "g">>

\* A message with a scope and a second line that reads as a header too:
\* the name comes from the first line.
C17_Witness ==
    /\ FallbackReturned
    /\ call.text = <<"f", "i", "x", "(", "u", "i", ")", ":", " ", "b", "!",
                     "\n", "\n", "b", ":", "c">>
    /\ returned.value = <<"f", "i", "x", "/", "u", "i", "-", "b">>

\* C18: every name generate_fallback_branch returns is <type>/<rest> with
\* a rest that is not empty and holds only lowercase letters, digits and
\* hyphens (the description words, at most three, come from
\* slugify(.., 3)).
C18_FallbackBranchWellFormed ==
    FallbackReturned
        => \E k \in 2..(Len(returned.value) - 1) :
              /\ returned.value[k] = "/"
              /\ \A i \in 1..(k - 1) : returned.value[i] \in Range(AsciiLower)
              /\ \A i \in (k + 1)..Len(returned.value) :
                    \/ returned.value[i] = "-"
                    \/ /\ is_alphanumeric(returned.value[i])
                       /\ lower_char(returned.value[i]) = <<returned.value[i]>>

AnalysisReturned == call.fn = "analyze_branch_alignment" /\ returned.returned

\* The response has a body: it was received, with a success status and a
\* choice
HasBody == call.resp.sent /\ call.resp.success /\ call.resp.choices # <<>>

\* C19: a body that parses to a verdict V gives the same V when whitespace
\* stands around it and/or a fence of three backquotes is wrapped around it,
\* whatever the language tag on the opening fence, or none
C19_FencedAcceptedIdentically ==
    (AnalysisReturned /\ HasBody /\ from_str(call.body).is_ok)
        => returned.value = from_str(call.body)

\* The claim's shape, read off the JSON value: an object whose keys are
\* matches (a boolean), reason (a string) and possibly suggested_branch (a
\* string, or null), each at most once, and nothing after the object
RefKeys(members) == {members[i].key : i \in 1..Len(members)}

RefOnce(members, k) == Cardinality({i \in 1..Len(members) : members[i].key = k}) = 1

RefTypeOf(members, k) ==
    LET i == CHOOSE j \in 1..Len(members) : members[j].key = k
    IN  members[i].value.t

RefExactShape(body) ==
    LET r == parse_value(body, 1, TRUE)
    IN  /\ r.ok
        /\ skip_whitespace(body, r.next) > Len(body)
        /\ r.value.t = "object"
        /\ RefKeys(r.value.v) \subseteq {K_matches, K_reason, K_suggested_branch}
        /\ \A k \in RefKeys(r.value.v) : RefOnce(r.value.v, k)
        /\ K_matches \in RefKeys(r.value.v)
        /\ K_reason \in RefKeys(r.value.v)
        /\ RefTypeOf(r.value.v, K_matches) = "bool"
        /\ RefTypeOf(r.value.v, K_reason) = "string"
        /\ K_suggested_branch \in RefKeys(r.value.v)
              => RefTypeOf(r.value.v, K_suggested_branch) \in {"string", "null"}

\* C20: a response without a choice, or whose body is not a JSON object of
\* exactly the shape {matches, reason, optional suggested_branch}, gives an
\* error and never a verdict
C20_OnlyExactShapeAccepted ==
    (AnalysisReturned /\ (~HasBody \/ ~RefExactShape(call.body)))
        => ~returned.value.is_ok

\* ------------------------------------------------------------------------
\* The workflow, second part
\* ------------------------------------------------------------------------

\* Position i of a log is an alignment answer and the next call is the
\* creation of a branch: no prompt stood between them
AutoCreatedAt(log, i) ==
    /\ i \in 1..(Len(log) - 1)
    /\ log[i].op = "analyze_branch_alignment"
    /\ log[i + 1].op = "create_and_switch_branch"

\* C21: with --auto-branch and a mismatched verdict the suggested branch is
\* created without any branch prompt, and every review prompt shown later in
\* the run has the create-branch-first option disabled; with a matching
\* verdict nothing is created before the review, whatever suggested_branch
\* holds, and the first review prompt has the option enabled.
C21_PreflightAutoAndMatch ==
    [][/\ (pc = "mismatch" /\ cli.auto_branch)
            => /\ Len(effects') = Len(effects) + 1
               /\ Last(effects').op = "create_and_switch_branch"
               /\ Last(effects').arg = suggested
               /\ IF Last(effects').flag
                  THEN pc' = "dry_run" /\ branch_already_handled'
                  ELSE EndsInError
       /\ (pc = "verdict" /\ analysis.matches)
            => /\ effects' = effects
               /\ pc' = "dry_run"
               /\ ~branch_already_handled'
       /\ cli.auto_branch
            => \A i \in 1..Len(effects') :
                  ~(effects'[i].op = "prompt_branch_action" /\ effects'[i].flag)
       /\ \A i \in 1..Len(effects') :
            /\ AutoCreatedAt(effects', i)
                => \A j \in (i + 2)..Len(effects') :
                      effects'[j].op = "prompt_commit" => ~effects'[j].flag
            /\ (/\ i < Len(effects')
                /\ effects'[i].op = "analyze_branch_alignment"
                /\ effects'[i + 1].op = "prompt_commit")
                => effects'[i + 1].flag]_vars

\* With --auto-branch the branch was created right after the verdict, and
\* at the review prompt, which does not offer the option, the user typed "b".
C21_Witness ==
    /\ cli.auto_branch
    /\ \E i \in 1..Len(effects) : AutoCreatedAt(effects, i) /\ effects[i + 1].flag
    /\ Last(effects).op = "prompt_commit"
    /\ ~Last(effects).flag
    /\ pc = "review"
    /\ input = <<"b", "\n">>

\* Position i of the log is the create/skip prompt shown before the review
PreflightPromptAt(i) ==
    /\ i \in 1..Len(effects)
    /\ effects[i].op = "prompt_branch_action"
    /\ effects[i].flag

\* A branch creation follows position i of the log at once
CreateFollows(i) ==
    /\ i < Len(effects)
    /\ effects[i + 1].op = "create_and_switch_branch"

\* C22 as stated: in an interactive run (no --dry-run, no auto_commit) the
\* prompt before the review behaves as the CreateBranch arm does: after a
\* skip the next call is the review prompt without the create-branch-first
\* option; after a create it is the same, except that with
\* commit_after_branch the next call is the commit of the current message
\* and the run ends there.
C22_PreflightPromptAsSubflow ==
    (~cli.dry_run /\ ~config.auto_commit)
        => \A i \in 1..Len(effects) :
              PreflightPromptAt(i) =>
                  LET created == CreateFollows(i) /\ effects[i + 1].flag
                      k == IF CreateFollows(i) THEN i + 1 ELSE i
                  IN  (Len(effects) > k)
                          => IF created /\ config.commit_after_branch
                             THEN /\ effects[k + 1].op = "run_git_commit"
                                  /\ effects[k + 1].arg = message
                                  /\ Len(effects) = k + 1
                                  /\ pc = "done"
                             ELSE /\ effects[k + 1].op = "prompt_commit"
                                  /\ ~effects[k + 1].flag

\* C22 as amended: after the prompt before the review, a skip and a
\* successful create both leave the block with the branch decision made,
\* whatever commit_after_branch says: with --dry-run nothing follows, with
\* auto_commit the next call is the commit of the generated message, and
\* otherwise it is the review prompt with that message and without the
\* create-branch-first option. A failed create ends the run in error.
C22_PreflightPromptThenReview ==
    \A i \in 1..Len(effects) :
        PreflightPromptAt(i) =>
            LET k == IF CreateFollows(i) THEN i + 1 ELSE i
            IN  IF CreateFollows(i) /\ ~effects[i + 1].flag
                THEN Len(effects) = k /\ pc = "done" /\ outcome = "error"
                ELSE /\ cli.dry_run => Len(effects) = k
                     /\ (pc \in {"dry_run", "loop"} /\ Len(effects) = k)
                            => branch_already_handled
                     /\ Len(effects) > k
                            => effects[k + 1] =
                                  IF config.auto_commit
                                  THEN Effect("run_git_commit", message,
                                              effects[k + 1].flag)
                                  ELSE Effect("prompt_commit", message, FALSE)

\* With commit_after_branch, a branch was created from the prompt before the
\* review, and the review prompt was then shown.
C22_Witness ==
    /\ config.commit_after_branch
    /\ Len(effects) >= 3
    /\ PreflightPromptAt(Len(effects) - 2)
    /\ effects[Len(effects) - 1] = Effect("create_and_switch_branch",
                                          effects[Len(effects) - 1].arg, TRUE)
    /\ Last(effects).op = "prompt_commit"
    /\ pc = "review"

\* Both reads of the join have completed with a result
DiffAndFilesRead ==
    /\ diff_result # Pending
    /\ files_result # Pending
    /\ diff_result.is_ok
    /\ files_result.is_ok

\* C23: the calls of a run are ordered: the message is generated only after
\* the diff was read, the alignment request is made only after the message
\* was generated, a branch is created before the review only after the
\* verdict was returned, and after a commit no branch is created (the
\* commit is the last call of the run).
C23_EffectsInOrder ==
    /\ \A i \in CallsOf("stream_commit_message") : i = 1 /\ DiffAndFilesRead
    /\ \A i \in CallsOf("analyze_branch_alignment") :
          /\ i = 2
          /\ effects[1] = Effect("stream_commit_message", message, TRUE)
          /\ message # <<>>
    /\ \A i \in CallsOf("create_and_switch_branch") :
          (\A j \in 1..(i - 1) : effects[j].op # "prompt_commit")
              => /\ effects[2] = Effect("analyze_branch_alignment",
                                        effects[2].arg, TRUE)
                 /\ i > 2
    /\ \A i \in CallsOf("run_git_commit") :
          /\ i = Len(effects)
          /\ pc = "done"

\* In a run with an alignment request a branch was created and the commit
\* followed.
C23_Witness ==
    /\ Len(effects) >= 2
    /\ effects[Len(effects) - 1].op = "create_and_switch_branch"
    /\ Last(effects).op = "run_git_commit"
    /\ \E j \in 1..Len(effects) : effects[j].op = "analyze_branch_alignment"

\* C24: get_git_diff and get_staged_files complete in either order, each
\* writing its own result only; the message is generated only after both
\* have completed; if either failed the run ends in error without a message
\* and without a commit.
C24_JoinBeforeMessage ==
    [][/\ (pc = "join" /\ diff_result' # diff_result)
            => /\ diff_result = Pending
               /\ UNCHANGED <<files_result, pc, outcome, message, effects>>
       /\ (pc = "join" /\ files_result' # files_result)
            => /\ files_result = Pending
               /\ UNCHANGED <<diff_result, pc, outcome, message, effects>>
       /\ (pc = "join" /\ pc' # "join")
            => /\ diff_result # Pending
               /\ files_result # Pending
               /\ UNCHANGED <<diff_result, files_result>>
       /\ effects' # <<>> => DiffAndFilesRead'
       /\ (\/ (diff_result' # Pending /\ ~diff_result'.is_ok)
           \/ (files_result' # Pending /\ ~files_result'.is_ok))
            => /\ effects' = <<>>
               /\ message' = <<>>
               /\ pc' \in {"join", "done"}
               /\ pc' = "done" => outcome' = "error"]_vars

\* The diff was read, the list of staged files failed, and the run ended in
\* error.
C24_Witness ==
    /\ diff_result = Ok(DiffText)
    /\ files_result = Err
    /\ pc = "done"
    /\ outcome = "error"

\* What a typed line is compared with: the line without surrounding
\* whitespace, in lower case
RefTyped(line) == to_lowercase(trim(line))

\* The words the review prompt knows, with and without the
\* create-branch-first option
RefReviewWords(option) ==
    {<<"y">>, <<"y", "e", "s">>, <<"n">>, <<"n", "o">>,
     <<"e">>, <<"e", "d", "i", "t">>}
    \cup (IF option THEN {<<"b">>, <<"b", "r", "a", "n", "c", "h">>} ELSE {})

\* The words the branch prompt knows
RefBranchWords ==
    {<<"y">>, <<"y", "e", "s">>, <<"n">>, <<"n", "o">>,
     <<"e">>, <<"e", "d", "i", "t">>}

\* What a re-prompt leaves alone: where main is, the messages, the branch
\* suggestion, the option, the decisions made and the calls made
Reprompt ==
    UNCHANGED <<pc, outcome, message, current_message, prompt_message,
                shown_message, suggested, current_suggestion, show_branch_option,
                branch_already_handled, branch_created, prompt_caller, effects>>

\* C25: at the review prompt and at the branch prompt a line that is not
\* one of the prompt's words only causes a re-prompt: the message, the
\* branch suggestion and the option are unchanged and nothing is called; "b"
\* typed at a review prompt that does not offer create-branch-first is such
\* a line, and the CreateBranch arm is entered only from a prompt that
\* offers it.
C25_UnrecognisedInputReprompts ==
    [][/\ (/\ pc = "review"
           /\ input' \in InputLines
           /\ RefTyped(input') \notin RefReviewWords(show_branch_option))
            => Reprompt
       /\ (/\ pc = "branch_prompt"
           /\ input' \in InputLines
           /\ RefTyped(input') \notin RefBranchWords)
            => Reprompt
       /\ (pc = "review" /\ pc' = "suggest") => show_branch_option]_vars

\* The message was edited at a review prompt that does not offer
\* create-branch-first, and the user then typed "b".
C25_Witness ==
    /\ pc = "review"
    /\ ~show_branch_option
    /\ prompt_message # current_message
    /\ input = <<"b", "\n">>

\* C26: at the branch prompt the name starts as the suggestion the prompt
\* was called with and changes only by an edit, which calls nothing; a
\* create calls create_and_switch_branch once, with the name as last
\* edited; every other way out of the prompt (skip) calls nothing.
C26_CreateUsesLastEditedName ==
    [][/\ (pc # "branch_prompt" /\ pc' = "branch_prompt")
            => /\ Last(effects').op = "prompt_branch_action"
               /\ current_suggestion' = Last(effects').arg
       /\ (pc = "branch_prompt" /\ current_suggestion' # current_suggestion
                                /\ pc' = "branch_prompt")
            => /\ RefTyped(input') \in {<<"e">>, <<"e", "d", "i", "t">>}
               /\ effects' = effects
       /\ (pc = "branch_prompt" /\ pc' = "branch_prompt") => effects' = effects
       /\ (pc = "branch_prompt" /\ effects' # effects)
            => effects' = Append(effects,
                                 Effect("create_and_switch_branch",
                                        current_suggestion, Last(effects').flag))
       /\ (pc = "branch_prompt" /\ pc' = "after_branch")
            => branch_created' = (effects' # effects)]_vars

\* The name was edited at the prompt of the CreateBranch arm and the branch
\* was created under the edited name.
C26_Witness ==
    /\ Len(effects) >= 2
    /\ SubflowPromptAt(Len(effects) - 1)
    /\ Last(effects).op = "create_and_switch_branch"
    /\ Last(effects).flag
    /\ Last(effects).arg # effects[Len(effects) - 1].arg
    /\ pc = "after_branch"

\* The run has ended committed, cancelled or with an error
Terminated == pc = "done" /\ outcome \in {"committed", "cancelled", "error"}

\* C27: a run that has reached the review prompt ends committed, cancelled
\* or with an error, when every call returns and the user at some time
\* answers commit or cancel; the CreateBranch arm is entered at most once
\* in a run.
C27_ReviewTerminates ==
    /\ [](Cardinality({i \in 1..Len(effects) : SubflowPromptAt(i)}) <= 1)
    /\ (pc = "review") ~> Terminated

\* The run went through the CreateBranch arm, came back to the review
\* prompt and ended cancelled.
C27_Witness ==
    /\ \E i \in 1..Len(effects) : SubflowPromptAt(i)
    /\ Last(effects).op = "prompt_commit"
    /\ pc = "done"
    /\ outcome = "cancelled"

\* C28: run_git_commit is called at most once in a run; a run the user
\* cancelled at the review prompt has ended, without a commit, and nothing
\* is called after the cancel, whether or not a branch was created before.
C28_CommitAtMostOnceNeverAfterCancel ==
    [][/\ Cardinality({i \in 1..Len(effects') : effects'[i].op = "run_git_commit"}) <= 1
       /\ outcome' = "cancelled"
            => /\ pc' = "done"
               /\ \A i \in 1..Len(effects') : effects'[i].op # "run_git_commit"
       /\ outcome = "cancelled" => UNCHANGED <<outcome, effects>>]_vars

\* A branch was created in the CreateBranch arm and the user then cancelled
\* at the review prompt.
C28_Witness ==
    /\ outcome = "cancelled"
    /\ \E i \in CallsOf("create_and_switch_branch") :
          /\ effects[i].flag
          /\ i > 1
          /\ SubflowPromptAt(i - 1)

\* C29: a run with --dry-run never calls create_and_switch_branch, whatever
\* --branch, --auto-branch, --yes and the verdict are.
C29_DryRunCreatesNoBranch ==
    cli.dry_run => NumCalls("create_and_switch_branch") = 0

\* C30: when create_and_switch_branch fails, before the review (called at
\* once or from the prompt) or in the CreateBranch arm, the run ends with
\* the error: the failed call is the last call of the run and no commit
\* follows.
C30_FailedCreateEndsTheRun ==
    \A i \in CallsOf("create_and_switch_branch") :
        ~effects[i].flag
            => /\ i = Len(effects)
               /\ pc = "done"
               /\ outcome = "error"
               /\ NumCalls("run_git_commit") = 0

\* With --yes and an alignment request the creation of the suggested branch
\* failed and the run ended in error.
C30_Witness ==
    /\ cli.yes
    /\ ~cli.dry_run
    /\ Len(effects) = 3
    /\ AutoCreatedAt(effects, 2)
    /\ ~Last(effects).flag
    /\ outcome = "error"

====
